---- MODULE Spec2Model ----
(***************************************************************************)
(* Model of the 340B optimizer's margin engine, recommendation resolver    *)
(* and IRA risk classifier (src/src/optimizer_340b).                       *)
(*                                                                         *)
(* The functions of the package are pure, so the state machine is a call   *)
(* record: `call` is the invocation being made (function name and          *)
(* arguments, drawn from bounded sets), `ret` is what it returned and `pc` *)
(* tells whether it has returned.  The one piece of process-wide state is  *)
(* the IRA registry, which the upload page reloads: `registries` holds     *)
(* the versions installed so far, the last being the module globals, and   *)
(* `frame` holds the locals of a check_ira_status call that runs next to   *)
(* a reload, `pc` then being the line it has reached.                      *)
(***************************************************************************)
EXTENDS Integers, Sequences, FiniteSets, TLC

VARIABLES call, ret, pc, registries, frame

vars == <<call, ret, pc, registries, frame>>

(***************************************************************************)
(* Bounds of the model.                                                    *)
(***************************************************************************)
\* prices are 0.00, 50.00, ..., MaxPrice * 50.00
MaxPrice == 2
\* bill_units_per_package ranges over 1..MaxUnits
MaxUnits == 2
\* margins given directly to determine_recommendation: -MaxMargin..MaxMargin
MaxMargin == 2
\* longest capture_rates list given to calculate_margin_sensitivity
MaxRates == 3
\* longest drug name given to check_ira_status (besides the sample names)
MaxLen == 3
\* most rows of a NADAC table
MaxRows == 2
\* longest opportunities list given to filter_top_opportunities
MaxOpps == 2
\* most reloads of the IRA registry next to one lookup
MaxReloads == 1

\* longest drug_names list given to filter_ira_drugs
MaxNames == 2
\* longest NDC string built from NdcChars
MaxNdcLen == 3

(***************************************************************************)
(* Python values.  None is a record no other value equals.                 *)
(***************************************************************************)
None == [none |-> TRUE]

(***************************************************************************)
(* decimal.Decimal.  A Decimal is its numeric value, kept as the record    *)
(* [coef, exp] meaning coef * 10^exp with trailing zeros removed, so that  *)
(* two Decimals are the same record exactly when Python's == holds         *)
(* (Decimal("5375.00") equals Decimal("5375")).  Every operation the code  *)
(* applies (times, minus, >, abs, bool, sort key) reads the value only.    *)
(* Products and differences are exact: the coefficients of the model stay  *)
(* far below the 28 significant digits of Python's default context.        *)
(***************************************************************************)
RECURSIVE Pow10(_)
Pow10(n) == IF n = 0 THEN 1 ELSE 10 * Pow10(n - 1)

RECURSIVE StripZeros(_, _)
StripZeros(c, e) ==
    IF c % 10 = 0 THEN StripZeros(c \div 10, e + 1) ELSE [coef |-> c, exp |-> e]

\* Decimal("<c * 10^e>"): the value of a literal or of an arithmetic result
Decimal(c, e) ==
    IF c = 0 THEN [coef |-> 0, exp |-> 0]
    ELSE IF c > 0 THEN StripZeros(c, e)
    ELSE LET p == StripZeros(0 - c, e) IN [coef |-> 0 - p.coef, exp |-> p.exp]

MinExp(a, b) == IF a.exp < b.exp THEN a.exp ELSE b.exp

\* the coefficient of a at exponent e (e <= a.exp)
Scaled(a, e) == a.coef * Pow10(a.exp - e)

\* a * b
DecMul(a, b) == Decimal(a.coef * b.coef, a.exp + b.exp)

\* a * n for a Python int n
DecMulInt(a, n) == Decimal(a.coef * n, a.exp)

\* a - b
DecSub(a, b) ==
    LET e == MinExp(a, b) IN Decimal(Scaled(a, e) - Scaled(b, e), e)

\* a > b
DecGt(a, b) == LET e == MinExp(a, b) IN Scaled(a, e) > Scaled(b, e)

\* a >= b
DecGe(a, b) == LET e == MinExp(a, b) IN Scaled(a, e) >= Scaled(b, e)

\* abs(a)
DecAbs(a) == IF a.coef < 0 THEN [coef |-> 0 - a.coef, exp |-> a.exp] ELSE a

\* x or Decimal("0"): None and a zero Decimal are both falsy
OrZero(x) == IF x = None \/ x.coef = 0 THEN Decimal(0, 0) ELSE x

(***************************************************************************)
(* Pricing constants (margins.py).                                         *)
(***************************************************************************)
AWP_DISCOUNT_FACTOR == Decimal(85, -2)

MEDICARE_ASP_MULTIPLIER == Decimal(106, -2)

\* mutant: the commercial payer reimburses below the Medicare rate
COMMERCIAL_ASP_MULTIPLIER_below_medicare == Decimal(105, -2)

COMMERCIAL_ASP_MULTIPLIER == Decimal(115, -2)

DEFAULT_CAPTURE_RATE == Decimal(45, -2)

RETAIL == "RETAIL"

MEDICARE_MEDICAL == "MEDICARE_MEDICAL"

COMMERCIAL_MEDICAL == "COMMERCIAL_MEDICAL"

(***************************************************************************)
(* models.Drug: the fields the margin engine reads.                        *)
(***************************************************************************)
\* mutant: the HCPCS code is not looked at
has_medical_path_asp_only(drug) == drug.asp # None

has_medical_path(drug) == drug.hcpcs_code # None /\ drug.asp # None

(***************************************************************************)
(* compute/margins.py                                                      *)
(***************************************************************************)
\* mutant: the capture rate scales the revenue, not the gross margin
calculate_retail_margin_net_of_cost(drug, capture_rate) ==
    LET revenue      == DecMul(drug.awp, AWP_DISCOUNT_FACTOR)
        gross_margin == DecSub(revenue, drug.contract_cost)
        net_margin   == DecSub(DecMul(revenue, capture_rate), drug.contract_cost)
    IN  [gross |-> gross_margin, net |-> net_margin]

\* mutant: the net margin is the share of the gross margin not captured
calculate_retail_margin_uncaptured(drug, capture_rate) ==
    LET revenue      == DecMul(drug.awp, AWP_DISCOUNT_FACTOR)
        gross_margin == DecSub(revenue, drug.contract_cost)
        net_margin   == DecMul(gross_margin, DecSub(Decimal(1, 0), capture_rate))
    IN  [gross |-> gross_margin, net |-> net_margin]

\* returns (gross_margin, net_margin)
calculate_retail_margin(drug, capture_rate) ==
    LET revenue      == DecMul(drug.awp, AWP_DISCOUNT_FACTOR)
        gross_margin == DecSub(revenue, drug.contract_cost)
        net_margin   == DecMul(gross_margin, capture_rate)
    IN  [gross |-> gross_margin, net |-> net_margin]

\* mutant: the bill units per package are left out
calculate_medicare_margin_per_unit(drug) ==
    IF ~has_medical_path(drug) THEN None
    ELSE DecSub(DecMul(drug.asp, MEDICARE_ASP_MULTIPLIER), drug.contract_cost)

calculate_medicare_margin(drug) ==
    IF ~has_medical_path(drug) THEN None
    ELSE LET revenue == DecMulInt(DecMul(drug.asp, MEDICARE_ASP_MULTIPLIER),
                                  drug.bill_units_per_package)
         IN  DecSub(revenue, drug.contract_cost)

\* mutant: the medicare multiplier is used for the commercial payer
calculate_commercial_margin_medicare_rate(drug) ==
    IF ~has_medical_path(drug) THEN None
    ELSE LET revenue == DecMulInt(DecMul(drug.asp, MEDICARE_ASP_MULTIPLIER),
                                  drug.bill_units_per_package)
         IN  DecSub(revenue, drug.contract_cost)

calculate_commercial_margin(drug) ==
    IF ~has_medical_path(drug) THEN None
    ELSE LET revenue == DecMulInt(DecMul(drug.asp, COMMERCIAL_ASP_MULTIPLIER),
                                  drug.bill_units_per_package)
         IN  DecSub(revenue, drug.contract_cost)

\* mutant: an unstable descending sort, equal margins change places
RECURSIVE InsertDesc_unstable(_, _)
InsertDesc_unstable(sorted, opt) ==
    IF sorted = <<>> THEN <<opt>>
    ELSE IF DecGt(Head(sorted).margin, opt.margin)
         THEN <<Head(sorted)>> \o InsertDesc_unstable(Tail(sorted), opt)
         ELSE <<opt>> \o sorted

\* list.sort(key=margin, reverse=True) is stable: an option is placed after
\* every option whose margin is greater than or equal to its own.
RECURSIVE InsertDesc(_, _)
InsertDesc(sorted, opt) ==
    IF sorted = <<>> THEN <<opt>>
    ELSE IF DecGe(Head(sorted).margin, opt.margin)
         THEN <<Head(sorted)>> \o InsertDesc(Tail(sorted), opt)
         ELSE <<opt>> \o sorted

RECURSIVE SortDesc(_)
SortDesc(options) ==
    IF options = <<>> THEN <<>>
    ELSE InsertDesc(SortDesc(SubSeq(options, 1, Len(options) - 1)),
                    options[Len(options)])

\* the candidate list before sorting
Options(retail_net, medicare, commercial) ==
    <<[path |-> RETAIL, margin |-> retail_net]>>
    \o (IF medicare # None
        THEN <<[path |-> MEDICARE_MEDICAL, margin |-> medicare]>> ELSE <<>>)
    \o (IF commercial # None
        THEN <<[path |-> COMMERCIAL_MEDICAL, margin |-> commercial]>> ELSE <<>>)

\* mutant: a single candidate is given delta zero
determine_recommendation_zero_delta(retail_net, medicare, commercial) ==
    LET options == SortDesc(Options(retail_net, medicare, commercial))
        best    == options[1]
        delta   == IF Len(options) > 1
                   THEN DecSub(best.margin, options[2].margin)
                   ELSE Decimal(0, 0)
    IN  [path |-> best.path, delta |-> delta]

\* returns (recommended_path, margin_delta)
determine_recommendation(retail_net, medicare, commercial) ==
    LET options == SortDesc(Options(retail_net, medicare, commercial))
        best    == options[1]
        delta   == IF Len(options) > 1
                   THEN DecSub(best.margin, options[2].margin)
                   ELSE best.margin
    IN  [path |-> best.path, delta |-> delta]

analyze_drug_margin(drug, capture_rate) ==
    LET retail     == calculate_retail_margin(drug, capture_rate)
        medicare   == calculate_medicare_margin(drug)
        commercial == calculate_commercial_margin(drug)
        rec        == determine_recommendation(retail.net, medicare, commercial)
    IN  [drug                |-> drug,
         retail_gross_margin |-> retail.gross,
         retail_net_margin   |-> retail.net,
         retail_capture_rate |-> capture_rate,
         medicare_margin     |-> medicare,
         commercial_margin   |-> commercial,
         recommended_path    |-> rec.path,
         margin_delta        |-> rec.delta]

\* float(d): the double nearest to the Decimal d, kept apart from d itself
Float(d) == [float |-> d]

\* bool(x) of a Decimal or None: None and a zero Decimal are false
Bool(x) == x # None /\ x.coef # 0

\* float(x) if x else None
FloatOrNone(x) == IF Bool(x) THEN Float(x) ELSE None

\* MarginAnalysis.to_display_dict; the fields of the drug that identify it
\* (ndc, drug_name, manufacturer, ira_flag, penny_pricing_flag) are copied
\* as they are and play no part in the margins
to_display_dict(analysis) ==
    [contract_cost       |-> Float(analysis.drug.contract_cost),
     awp                 |-> Float(analysis.drug.awp),
     asp                 |-> FloatOrNone(analysis.drug.asp),
     retail_gross_margin |-> Float(analysis.retail_gross_margin),
     retail_net_margin   |-> Float(analysis.retail_net_margin),
     retail_capture_rate |-> Float(analysis.retail_capture_rate),
     medicare_margin     |-> FloatOrNone(analysis.medicare_margin),
     commercial_margin   |-> FloatOrNone(analysis.commercial_margin),
     recommendation      |-> analysis.recommended_path,
     margin_delta        |-> Float(analysis.margin_delta)]

\* str.lower() on the payer names the model passes
Lower(s) ==
    CASE s = "MEDICARE"   -> "medicare"
      [] s = "Medicare"   -> "medicare"
      [] s = "COMMERCIAL" -> "commercial"
      [] OTHER            -> s

\* mutant: the payer also wins a tie with retail
PayerBranch_ge(medical_margin, retail_net, path) ==
    IF medical_margin # None /\ DecGe(medical_margin, retail_net)
    THEN [recommended |-> path, delta |-> DecSub(medical_margin, retail_net)]
    ELSE [recommended |-> RETAIL,
          delta       |-> DecSub(retail_net, OrZero(medical_margin))]

\* one branch of the payer comparison: (recommended, delta)
PayerBranch(medical_margin, retail_net, path) ==
    IF medical_margin # None /\ DecGt(medical_margin, retail_net)
    THEN [recommended |-> path, delta |-> DecSub(medical_margin, retail_net)]
    ELSE [recommended |-> RETAIL,
          delta       |-> DecSub(retail_net, OrZero(medical_margin))]

\* mutant: the delta is returned with its sign
analyze_drug_with_payer_signed(drug, payer_type, capture_rate) ==
    LET retail == calculate_retail_margin(drug, capture_rate)
        cmp    == IF Lower(payer_type) = "medicare"
                  THEN PayerBranch(calculate_medicare_margin(drug),
                                   retail.net, MEDICARE_MEDICAL)
                  ELSE PayerBranch(calculate_commercial_margin(drug),
                                   retail.net, COMMERCIAL_MEDICAL)
    IN  [drug                |-> drug,
         retail_gross_margin |-> retail.gross,
         retail_net_margin   |-> retail.net,
         retail_capture_rate |-> capture_rate,
         medicare_margin     |-> calculate_medicare_margin(drug),
         commercial_margin   |-> calculate_commercial_margin(drug),
         recommended_path    |-> cmp.recommended,
         margin_delta        |-> cmp.delta]

analyze_drug_with_payer(drug, payer_type, capture_rate) ==
    LET retail == calculate_retail_margin(drug, capture_rate)
        cmp    == IF Lower(payer_type) = "medicare"
                  THEN PayerBranch(calculate_medicare_margin(drug),
                                   retail.net, MEDICARE_MEDICAL)
                  ELSE PayerBranch(calculate_commercial_margin(drug),
                                   retail.net, COMMERCIAL_MEDICAL)
    IN  [drug                |-> drug,
         retail_gross_margin |-> retail.gross,
         retail_net_margin   |-> retail.net,
         retail_capture_rate |-> capture_rate,
         medicare_margin     |-> calculate_medicare_margin(drug),
         commercial_margin   |-> calculate_commercial_margin(drug),
         recommended_path    |-> cmp.recommended,
         margin_delta        |-> DecAbs(cmp.delta)]

\* the rates used when capture_rates is None
DefaultRates ==
    <<Decimal(40, -2), Decimal(45, -2), Decimal(60, -2), Decimal(80, -2),
      Decimal(100, -2)>>

\* the default rates are also used for an empty list (if not capture_rates)
calculate_margin_sensitivity_default_if_empty(drug, capture_rates) ==
    LET rates      == IF capture_rates = None \/ capture_rates.items = <<>>
                      THEN DefaultRates
                      ELSE capture_rates.items
        medicare   == calculate_medicare_margin(drug)
        commercial == calculate_commercial_margin(drug)
    IN  [i \in 1..Len(rates) |->
            LET retail_net == calculate_retail_margin(drug, rates[i]).net
                best == determine_recommendation(retail_net, medicare, commercial)
            IN  [capture_rate |-> rates[i], retail_net |-> retail_net,
                 medicare |-> OrZero(medicare), commercial |-> OrZero(commercial),
                 recommended |-> best.path]]

\* mutant: the rows carry the margins as computed, None where there is none
calculate_margin_sensitivity_absent_margins(drug, capture_rates) ==
    LET rates      == IF capture_rates = None THEN DefaultRates
                      ELSE capture_rates.items
        medicare   == calculate_medicare_margin(drug)
        commercial == calculate_commercial_margin(drug)
    IN  [i \in 1..Len(rates) |->
            LET retail_net == calculate_retail_margin(drug, rates[i]).net
                best == determine_recommendation(retail_net, medicare, commercial)
            IN  [capture_rate |-> rates[i], retail_net |-> retail_net,
                 medicare |-> medicare, commercial |-> commercial,
                 recommended |-> best.path]]

\* mutant: the recommendation is resolved from the zero-filled columns
calculate_margin_sensitivity_from_columns(drug, capture_rates) ==
    LET rates      == IF capture_rates = None THEN DefaultRates
                      ELSE capture_rates.items
        medicare   == OrZero(calculate_medicare_margin(drug))
        commercial == OrZero(calculate_commercial_margin(drug))
    IN  [i \in 1..Len(rates) |->
            LET retail_net == calculate_retail_margin(drug, rates[i]).net
                best == determine_recommendation(retail_net, medicare, commercial)
            IN  [capture_rate |-> rates[i], retail_net |-> retail_net,
                 medicare |-> medicare, commercial |-> commercial,
                 recommended |-> best.path]]

calculate_margin_sensitivity(drug, capture_rates) ==
    LET rates      == IF capture_rates = None THEN DefaultRates
                      ELSE capture_rates.items
        medicare   == calculate_medicare_margin(drug)
        commercial == calculate_commercial_margin(drug)
    IN  [i \in 1..Len(rates) |->
            LET retail_net == calculate_retail_margin(drug, rates[i]).net
                best == determine_recommendation(retail_net, medicare, commercial)
            IN  [capture_rate |-> rates[i],
                 retail_net   |-> retail_net,
                 medicare     |-> OrZero(medicare),
                 commercial   |-> OrZero(commercial),
                 recommended  |-> best.path]]

(***************************************************************************)
(* risk/ira_flags.py.  A str is the sequence of its characters; a dict is  *)
(* the sequence of its [key, value] items in insertion order.              *)
(***************************************************************************)
IRA_2026_DRUGS ==
    <<
      [key |-> <<"E", "L", "I", "Q", "U", "I", "S">>,
       value |-> "Blood thinner (apixaban)"],
      [key |-> <<"J", "A", "R", "D", "I", "A", "N", "C", "E">>,
       value |-> "Diabetes (empagliflozin)"],
      [key |-> <<"X", "A", "R", "E", "L", "T", "O">>,
       value |-> "Blood thinner (rivaroxaban)"],
      [key |-> <<"J", "A", "N", "U", "V", "I", "A">>,
       value |-> "Diabetes (sitagliptin)"],
      [key |-> <<"F", "A", "R", "X", "I", "G", "A">>,
       value |-> "Diabetes/Heart failure (dapagliflozin)"],
      [key |-> <<"E", "N", "T", "R", "E", "S", "T", "O">>,
       value |-> "Heart failure (sacubitril/valsartan)"],
      [key |-> <<"E", "N", "B", "R", "E", "L">>,
       value |-> "Autoimmune (etanercept)"],
      [key |-> <<"I", "M", "B", "R", "U", "V", "I", "C", "A">>,
       value |-> "Cancer (ibrutinib)"],
      [key |-> <<"S", "T", "E", "L", "A", "R", "A">>,
       value |-> "Autoimmune (ustekinumab)"],
      [key |-> <<"F", "I", "A", "S", "P">>,
       value |-> "Insulin (insulin aspart)"],
      [key |-> <<"F", "I", "A", "S", "P", " ", "F", "L", "E", "X", "T", "O", "U", "C", "H">>,
       value |-> "Insulin (insulin aspart)"],
      [key |-> <<"F", "I", "A", "S", "P", " ", "P", "E", "N", "F", "I", "L", "L">>,
       value |-> "Insulin (insulin aspart)"],
      [key |-> <<"N", "O", "V", "O", "L", "O", "G">>,
       value |-> "Insulin (insulin aspart)"],
      [key |-> <<"N", "O", "V", "O", "L", "O", "G", " ", "F", "L", "E", "X", "P", "E", "N">>,
       value |-> "Insulin (insulin aspart)"],
      [key |-> <<"N", "O", "V", "O", "L", "O", "G", " ", "M", "I", "X">>,
       value |-> "Insulin (insulin aspart)"]
    >>

IRA_2027_DRUGS ==
    <<
      [key |-> <<"O", "Z", "E", "M", "P", "I", "C">>,
       value |-> "Diabetes/Weight loss (semaglutide)"],
      [key |-> <<"R", "Y", "B", "E", "L", "S", "U", "S">>,
       value |-> "Diabetes (oral semaglutide)"],
      [key |-> <<"W", "E", "G", "O", "V", "Y">>,
       value |-> "Weight loss (semaglutide)"],
      [key |-> <<"T", "R", "E", "L", "E", "G", "Y", " ", "E", "L", "L", "I", "P", "T", "A">>,
       value |-> "COPD (fluticasone/umeclidinium/vilanterol)"],
      [key |-> <<"T", "R", "U", "L", "I", "C", "I", "T", "Y">>,
       value |-> "Diabetes (dulaglutide)"],
      [key |-> <<"P", "O", "M", "A", "L", "Y", "S", "T">>,
       value |-> "Cancer (pomalidomide)"],
      [key |-> <<"A", "U", "S", "T", "E", "D", "O">>,
       value |-> "Movement disorders (deutetrabenazine)"],
      [key |-> <<"I", "B", "R", "A", "N", "C", "E">>,
       value |-> "Cancer (palbociclib)"],
      [key |-> <<"O", "T", "E", "Z", "L", "A">>,
       value |-> "Autoimmune (apremilast)"],
      [key |-> <<"C", "O", "S", "E", "N", "T", "Y", "X">>,
       value |-> "Autoimmune (secukinumab)"],
      [key |-> <<"T", "A", "L", "Z", "E", "N", "N", "A">>,
       value |-> "Cancer (talazoparib)"],
      [key |-> <<"A", "U", "B", "A", "G", "I", "O">>,
       value |-> "Multiple sclerosis (teriflunomide)"],
      [key |-> <<"O", "M", "V", "O", "H">>,
       value |-> "Ulcerative colitis (mirikizumab)"],
      [key |-> <<"X", "T", "A", "N", "D", "I">>,
       value |-> "Cancer (enzalutamide)"],
      [key |-> <<"S", "I", "V", "E", "X", "T", "R", "O">>,
       value |-> "Antibiotic (tedizolid)"]
    >>

\* dict[key] = value: an existing key keeps its place, a new one is appended
DictSet(dict, key, value) ==
    IF \E i \in 1..Len(dict) : dict[i].key = key
    THEN [i \in 1..Len(dict) |->
            IF dict[i].key = key THEN [key |-> key, value |-> value]
            ELSE dict[i]]
    ELSE Append(dict, [key |-> key, value |-> value])

\* key in dict
HasKey(dict, key) == \E i \in 1..Len(dict) : dict[i].key = key

\* dict[key], for a key the dict holds
DictGet(dict, key) ==
    dict[CHOOSE i \in 1..Len(dict) : dict[i].key = key].value

LowerChars ==
    <<"a", "b", "c", "d", "e", "f", "g", "h", "i", "j", "k", "l", "m",
      "n", "o", "p", "q", "r", "s", "t", "u", "v", "w", "x", "y", "z">>

UpperChars ==
    <<"A", "B", "C", "D", "E", "F", "G", "H", "I", "J", "K", "L", "M",
      "N", "O", "P", "Q", "R", "S", "T", "U", "V", "W", "X", "Y", "Z">>

UpperChar(c) ==
    IF \E i \in 1..Len(LowerChars) : LowerChars[i] = c
    THEN UpperChars[CHOOSE i \in 1..Len(LowerChars) : LowerChars[i] = c]
    ELSE c

\* str.upper()
Upper(s) == [i \in 1..Len(s) |-> UpperChar(s[i])]

Whitespace == {" ", "\t", "\n"}

RECURSIVE LStrip(_)
LStrip(s) ==
    IF s # <<>> /\ Head(s) \in Whitespace THEN LStrip(Tail(s)) ELSE s

RECURSIVE RStrip(_)
RStrip(s) ==
    IF s # <<>> /\ s[Len(s)] \in Whitespace
    THEN RStrip(SubSeq(s, 1, Len(s) - 1)) ELSE s

\* str.strip()
Strip(s) == RStrip(LStrip(s))

\* a in b, for strings
Contains(b, a) ==
    \E i \in 0..(Len(b) - Len(a)) : SubSeq(b, i + 1, i + Len(a)) = a

\* the module-level loops that fill IRA_DRUGS_BY_YEAR
RECURSIVE AddYear(_, _, _, _)
AddYear(by_year, drugs, i, year) ==
    IF i > Len(drugs) THEN by_year
    ELSE AddYear(DictSet(by_year, Upper(drugs[i].key), year), drugs, i + 1, year)

IRA_DRUGS_BY_YEAR ==
    AddYear(AddYear(<<>>, IRA_2026_DRUGS, 1, 2026), IRA_2027_DRUGS, 1, 2027)

\* IRA_2026_DRUGS.get(name) or IRA_2027_DRUGS.get(name)
Description(name) ==
    IF HasKey(IRA_2026_DRUGS, name) /\ DictGet(IRA_2026_DRUGS, name) # ""
    THEN DictGet(IRA_2026_DRUGS, name)
    ELSE IF HasKey(IRA_2027_DRUGS, name) THEN DictGet(IRA_2027_DRUGS, name)
    ELSE None

\* PartialMatch that only asks whether the registry name is inside name_upper
RECURSIVE PartialMatch_one_way(_, _)
PartialMatch_one_way(name_upper, i) ==
    IF i > Len(IRA_DRUGS_BY_YEAR) THEN 0
    ELSE IF Contains(name_upper, IRA_DRUGS_BY_YEAR[i].key)
         THEN i
         ELSE PartialMatch_one_way(name_upper, i + 1)

\* the index of the first item at or after i whose name stands in a substring
\* relation to name_upper, 0 when the loop ends without one
RECURSIVE PartialMatch(_, _)
PartialMatch(name_upper, i) ==
    IF i > Len(IRA_DRUGS_BY_YEAR) THEN 0
    ELSE IF \/ Contains(name_upper, IRA_DRUGS_BY_YEAR[i].key)
            \/ Contains(IRA_DRUGS_BY_YEAR[i].key, name_upper)
         THEN i
         ELSE PartialMatch(name_upper, i + 1)

\* check_ira_status without the exact-match step: the loop alone decides
check_ira_status_partial_only(drug_name) ==
    IF drug_name = <<>>
    THEN [is_ira_drug |-> FALSE, ira_year |-> None, drug_name |-> None,
          description |-> None,
          warning_message |-> <<"No drug name provided">>,
          risk_level |-> "Unknown"]
    ELSE
      LET name_upper == Strip(Upper(drug_name))
          i == PartialMatch(name_upper, 1)
      IN
        IF i # 0
        THEN LET ira_drug == IRA_DRUGS_BY_YEAR[i].key
                 year     == IRA_DRUGS_BY_YEAR[i].value
             IN  [is_ira_drug |-> TRUE, ira_year |-> year,
                  drug_name |-> ira_drug,
                  description |-> Description(ira_drug),
                  warning_message |->
                      <<"High Risk / IRA ", year, ": ", drug_name,
                        " appears to match ", ira_drug,
                        ", which is subject to Medicare price negotiation.">>,
                  risk_level |-> "High Risk"]
        ELSE [is_ira_drug |-> FALSE, ira_year |-> None, drug_name |-> None,
              description |-> None,
              warning_message |-> <<"No IRA risk detected">>,
              risk_level |-> "Low Risk"]

check_ira_status(drug_name) ==
    IF drug_name = <<>>
    THEN [is_ira_drug |-> FALSE, ira_year |-> None, drug_name |-> None,
          description |-> None,
          warning_message |-> <<"No drug name provided">>,
          risk_level |-> "Unknown"]
    ELSE
      LET name_upper == Strip(Upper(drug_name)) IN
      IF HasKey(IRA_DRUGS_BY_YEAR, name_upper)
      THEN LET year == DictGet(IRA_DRUGS_BY_YEAR, name_upper) IN
           [is_ira_drug |-> TRUE, ira_year |-> year, drug_name |-> name_upper,
            description |-> Description(name_upper),
            warning_message |->
                <<"High Risk / IRA ", year, ": ", drug_name,
                  " is subject to Medicare price negotiation. 340B margins may be significantly reduced starting ",
                  year, ".">>,
            risk_level |-> "High Risk"]
      ELSE
        LET i == PartialMatch(name_upper, 1) IN
        IF i # 0
        THEN LET ira_drug == IRA_DRUGS_BY_YEAR[i].key
                 year     == IRA_DRUGS_BY_YEAR[i].value
             IN  [is_ira_drug |-> TRUE, ira_year |-> year,
                  drug_name |-> ira_drug,
                  description |-> Description(ira_drug),
                  warning_message |->
                      <<"High Risk / IRA ", year, ": ", drug_name,
                        " appears to match ", ira_drug,
                        ", which is subject to Medicare price negotiation.">>,
                  risk_level |-> "High Risk"]
        ELSE [is_ira_drug |-> FALSE, ira_year |-> None, drug_name |-> None,
              description |-> None,
              warning_message |-> <<"No IRA risk detected">>,
              risk_level |-> "Low Risk"]

(***************************************************************************)
(* The IRA registry as process-wide state.  check_ira_status reads three   *)
(* module globals, each read being a separate load of the global's         *)
(* current value.  reload_ira_drugs, called by ui/pages/upload.py, is not  *)
(* among the source files: it is modelled as the specification words it,   *)
(* one atomic replacement of the whole registry by the rows given.         *)
(***************************************************************************)
\* the registry the module is imported with
InitialRegistry ==
    [IRA_DRUGS_BY_YEAR |-> IRA_DRUGS_BY_YEAR,
     IRA_2026_DRUGS    |-> IRA_2026_DRUGS,
     IRA_2027_DRUGS    |-> IRA_2027_DRUGS]

\* the rows of one negotiation year as a name -> description dict
RECURSIVE RowsOfYear(_, _, _)
RowsOfYear(rows, i, year) ==
    IF i > Len(rows) THEN <<>>
    ELSE LET rest == RowsOfYear(rows, i + 1, year) IN
         IF rows[i].year = year
         THEN <<[key |-> rows[i].drug_name, value |-> rows[i].description]>> \o rest
         ELSE rest

\* the registry built from (drug_name, year, description) rows
reload_ira_drugs(rows) ==
    LET drugs_2026 == RowsOfYear(rows, 1, 2026)
        drugs_2027 == RowsOfYear(rows, 1, 2027)
    IN  [IRA_DRUGS_BY_YEAR |->
             AddYear(AddYear(<<>>, drugs_2026, 1, 2026), drugs_2027, 1, 2027),
         IRA_2026_DRUGS |-> drugs_2026,
         IRA_2027_DRUGS |-> drugs_2027]

\* the first item of by_year at or after i whose name stands in a substring
\* relation to name_upper, 0 when the loop ends without one
RECURSIVE PartialMatchIn(_, _, _)
PartialMatchIn(by_year, name_upper, i) ==
    IF i > Len(by_year) THEN 0
    ELSE IF \/ Contains(name_upper, by_year[i].key)
            \/ Contains(by_year[i].key, name_upper)
         THEN i
         ELSE PartialMatchIn(by_year, name_upper, i + 1)

\* bool(dict.get(name)): the name has a non-empty description in dict
HasDescription(dict, name) == HasKey(dict, name) /\ DictGet(dict, name) # ""

\* the dict check_ira_status returns for a match
IraResult(kind, drug_name, ira_drug, year, description) ==
    [is_ira_drug |-> TRUE, ira_year |-> year, drug_name |-> ira_drug,
     description |-> description,
     warning_message |->
         IF kind = "exact"
         THEN <<"High Risk / IRA ", year, ": ", drug_name,
                " is subject to Medicare price negotiation. 340B margins may be significantly reduced starting ",
                year, ".">>
         ELSE <<"High Risk / IRA ", year, ": ", drug_name,
                " appears to match ", ira_drug,
                ", which is subject to Medicare price negotiation.">>,
     risk_level |-> "High Risk"]

\* IRA_DRUGS_BY_YEAR[name_upper] for a name the dict no longer holds
KeyError == [raised |-> "KeyError"]

(***************************************************************************)
(* risk/penny_pricing.py.  A NADAC table is [columns, rows]: the set of    *)
(* its column names and its rows in order.  A row has a cell per known     *)
(* column; for a column the table lacks the cell is what the code reads    *)
(* for it: None from row.get(column), the empty string from                *)
(* row.get("ndc", "").  A cell of a numeric column is the Decimal that     *)
(* Decimal(str(cell)) builds from it, or None for a null.                  *)
(***************************************************************************)
PENNY_THRESHOLD == Decimal(10, -2)

HIGH_DISCOUNT_THRESHOLD == Decimal(950, -1)

\* Python's True and False where a cell or a dict value may also be None
PyTrue == [bool |-> TRUE]

PyFalse == [bool |-> FALSE]

\* bool(v) for v one of None, True, False
Truthy(v) == v = PyTrue

\* a <= b
DecLe(a, b) == LET e == MinExp(a, b) IN Scaled(a, e) <= Scaled(b, e)

\* s.replace("-", "")
RemoveDashes(s) == SelectSeq(s, LAMBDA c : c # "-")

\* str(row.get("ndc", ""))
RowNdc(nadac_df, row) == IF "ndc" \in nadac_df.columns THEN row.ndc ELSE <<>>

\* a str held as a dict value
Str(s) == [str |-> s]

\* the discount test with > in place of >=
PennyRow_strict(has_penny_column, has_discount_column, row) ==
    LET by_flag     == has_penny_column /\ Truthy(row.penny_pricing)
        discount    == row.total_discount_340b_pct
        by_discount == /\ has_discount_column
                       /\ discount # None
                       /\ DecGt(discount, HIGH_DISCOUNT_THRESHOLD)
    IN  [is_penny |-> by_flag \/ by_discount,
         reason   |-> IF by_discount THEN <<"340B discount is ", discount, "%">>
                      ELSE IF by_flag THEN <<"Penny pricing flag is set">>
                      ELSE <<>>]

\* the body of check_penny_pricing's loop for one row: is_penny and reason
PennyRow(has_penny_column, has_discount_column, row) ==
    LET by_flag     == has_penny_column /\ Truthy(row.penny_pricing)
        discount    == row.total_discount_340b_pct
        by_discount == /\ has_discount_column
                       /\ discount # None
                       /\ DecGe(discount, HIGH_DISCOUNT_THRESHOLD)
    IN  [is_penny |-> by_flag \/ by_discount,
         reason   |-> IF by_discount THEN <<"340B discount is ", discount, "%">>
                      ELSE IF by_flag THEN <<"Penny pricing flag is set">>
                      ELSE <<>>]

\* check_penny_pricing's loop from row i on
RECURSIVE FlagRows(_, _, _)
FlagRows(nadac_df, i, flagged) ==
    IF i > Len(nadac_df.rows) THEN flagged
    ELSE LET row == nadac_df.rows[i]
             ndc == RowNdc(nadac_df, row)
             p   == PennyRow("penny_pricing" \in nadac_df.columns,
                             "total_discount_340b_pct" \in nadac_df.columns,
                             row)
         IN  FlagRows(nadac_df, i + 1,
                 IF p.is_penny
                 THEN Append(flagged,
                        [ndc |-> ndc,
                         is_penny_priced |-> TRUE,
                         discount_pct |-> row.total_discount_340b_pct,
                         warning_message |->
                             <<"Penny Pricing Alert: ", ndc, " - ", p.reason,
                               ". This drug should NOT appear in Top Opportunities.">>,
                         should_exclude |-> TRUE])
                 ELSE flagged)

check_penny_pricing(nadac_df) ==
    IF /\ "penny_pricing" \notin nadac_df.columns
       /\ "total_discount_340b_pct" \notin nadac_df.columns
    THEN <<>>
    ELSE FlagRows(nadac_df, 1, <<>>)

PennyPricingStatus(is_penny_priced, ndc, nadac_price, discount_pct, warning_message, should_exclude) ==
    [is_penny_priced |-> is_penny_priced, ndc |-> ndc,
     nadac_price |-> nadac_price, discount_pct |-> discount_pct,
     warning_message |-> warning_message, should_exclude |-> should_exclude]

\* ndc.replace("-", "").strip(), and the same on the table's ndc column
NormalizeNdc(ndc) == Strip(RemoveDashes(ndc))

\* nadac_df.filter(<normalized ndc column> == ndc_clean): the rows, in order
Matches(nadac_df, ndc_clean) ==
    SelectSeq(nadac_df.rows, LAMBDA row : NormalizeNdc(row.ndc) = ndc_clean)

\* the indicators without the NADAC price test
DrugIndicators_no_price(columns, row) ==
    LET by_flag     == "penny_pricing" \in columns /\ Truthy(row.penny_pricing)
        price       == row.nadac_per_unit
        has_price   == "nadac_per_unit" \in columns /\ price # None
        discount    == row.total_discount_340b_pct
        has_disc    == "total_discount_340b_pct" \in columns /\ discount # None
        by_discount == has_disc /\ DecGe(discount, HIGH_DISCOUNT_THRESHOLD)
    IN  [is_penny     |-> by_flag \/ by_discount,
         nadac_price  |-> IF has_price THEN price ELSE None,
         discount_pct |-> IF has_disc THEN discount ELSE None,
         reason       |-> IF by_discount THEN <<"340B discount is ", discount, "%">>
                          ELSE IF by_flag THEN <<"Penny pricing flag is set">>
                          ELSE <<>>]

\* mutant: the indicators without the discount test
DrugIndicators_no_discount(columns, row) ==
    LET by_flag     == "penny_pricing" \in columns /\ Truthy(row.penny_pricing)
        price       == row.nadac_per_unit
        has_price   == "nadac_per_unit" \in columns /\ price # None
        by_price    == has_price /\ DecLe(price, PENNY_THRESHOLD)
        discount    == row.total_discount_340b_pct
        has_disc    == "total_discount_340b_pct" \in columns /\ discount # None
    IN  [is_penny     |-> by_flag \/ by_price,
         nadac_price  |-> IF has_price THEN price ELSE None,
         discount_pct |-> IF has_disc THEN discount ELSE None,
         reason       |-> IF by_price THEN <<"NADAC price is $", price>>
                          ELSE IF by_flag THEN <<"Penny pricing flag is set">>
                          ELSE <<>>]

\* the penny pricing indicators check_penny_pricing_for_drug reads off a row
DrugIndicators(columns, row) ==
    LET by_flag     == "penny_pricing" \in columns /\ Truthy(row.penny_pricing)
        price       == row.nadac_per_unit
        has_price   == "nadac_per_unit" \in columns /\ price # None
        by_price    == has_price /\ DecLe(price, PENNY_THRESHOLD)
        discount    == row.total_discount_340b_pct
        has_disc    == "total_discount_340b_pct" \in columns /\ discount # None
        by_discount == has_disc /\ DecGe(discount, HIGH_DISCOUNT_THRESHOLD)
    IN  [is_penny     |-> by_flag \/ by_price \/ by_discount,
         nadac_price  |-> IF has_price THEN price ELSE None,
         discount_pct |-> IF has_disc THEN discount ELSE None,
         reason       |-> IF by_discount THEN <<"340B discount is ", discount, "%">>
                          ELSE IF by_price THEN <<"NADAC price is $", price>>
                          ELSE IF by_flag THEN <<"Penny pricing flag is set">>
                          ELSE <<>>]

\* the status of a matched row with should_exclude left at False
MatchedStatus_never_exclude(ndc, ind) ==
    PennyPricingStatus(ind.is_penny, ndc, ind.nadac_price, ind.discount_pct,
        IF ind.is_penny
        THEN <<"Penny Pricing Alert: ", ndc, " - ", ind.reason,
               ". Exclude from Top Opportunities.">>
        ELSE <<"No penny pricing detected">>,
        FALSE)

\* the status of a matched row, is_penny deciding the warning and exclusion
MatchedStatus(ndc, ind) ==
    PennyPricingStatus(ind.is_penny, ndc, ind.nadac_price, ind.discount_pct,
        IF ind.is_penny
        THEN <<"Penny Pricing Alert: ", ndc, " - ", ind.reason,
               ". Exclude from Top Opportunities.">>
        ELSE <<"No penny pricing detected">>,
        ind.is_penny)

\* an NDC the table does not hold is reported as penny priced
check_penny_pricing_for_drug_unknown_flagged(ndc, nadac_df) ==
    LET ndc_clean == NormalizeNdc(ndc) IN
    IF "ndc" \notin nadac_df.columns
    THEN PennyPricingStatus(FALSE, ndc, None, None,
                            <<"NADAC data not available">>, FALSE)
    ELSE LET matches == Matches(nadac_df, ndc_clean) IN
         IF Len(matches) = 0
         THEN PennyPricingStatus(TRUE, ndc, None, None,
                                 <<"NDC not found in NADAC data">>, TRUE)
         ELSE MatchedStatus(ndc, DrugIndicators(nadac_df.columns, matches[1]))

check_penny_pricing_for_drug(ndc, nadac_df) ==
    LET ndc_clean == NormalizeNdc(ndc) IN
    IF "ndc" \notin nadac_df.columns
    THEN PennyPricingStatus(FALSE, ndc, None, None,
                            <<"NADAC data not available">>, FALSE)
    ELSE LET matches == Matches(nadac_df, ndc_clean) IN
         IF Len(matches) = 0
         THEN PennyPricingStatus(FALSE, ndc, None, None,
                                 <<"NDC not found in NADAC data">>, FALSE)
         ELSE MatchedStatus(ndc, DrugIndicators(nadac_df.columns, matches[1]))

\* dict.get(key, default)
Get(dict, key, default) ==
    IF HasKey(dict, key) THEN DictGet(dict, key) ELSE default

\* a Python set argument
SetOf(elems) == [elems |-> elems]

\* the set of penny-priced NDCs filter_top_opportunities works with
PennyNdcs(nadac_df, penny_ndcs) ==
    IF penny_ndcs = None /\ nadac_df # None
    THEN LET flagged == check_penny_pricing(nadac_df)
         IN  {flagged[i].ndc : i \in 1..Len(flagged)}
    ELSE IF penny_ndcs = None THEN {}
    ELSE penny_ndcs.elems

\* the loop without the inline flag
RECURSIVE FilterLoop_set_only(_, _, _, _)
FilterLoop_set_only(opportunities, penny_ndcs, i, filtered) ==
    IF i > Len(opportunities) THEN filtered
    ELSE LET opp == opportunities[i]
             ndc == Get(opp, "ndc", Str(<<>>)).str
         IN  FilterLoop_set_only(opportunities, penny_ndcs, i + 1,
                 IF ndc \in penny_ndcs
                 THEN filtered
                 ELSE Append(filtered, opp))

\* filter_top_opportunities' loop from opportunity i on
RECURSIVE FilterLoop(_, _, _, _)
FilterLoop(opportunities, penny_ndcs, i, filtered) ==
    IF i > Len(opportunities) THEN filtered
    ELSE LET opp      == opportunities[i]
             ndc      == Get(opp, "ndc", Str(<<>>)).str
             is_penny == Get(opp, "penny_pricing", PyFalse)
         IN  FilterLoop(opportunities, penny_ndcs, i + 1,
                 IF ndc \in penny_ndcs \/ Truthy(is_penny)
                 THEN filtered
                 ELSE Append(filtered, opp))

\* the loop putting each kept opportunity at the front of the list
RECURSIVE FilterLoop_prepend(_, _, _, _)
FilterLoop_prepend(opportunities, penny_ndcs, i, filtered) ==
    IF i > Len(opportunities) THEN filtered
    ELSE LET opp      == opportunities[i]
             ndc      == Get(opp, "ndc", Str(<<>>)).str
             is_penny == Get(opp, "penny_pricing", PyFalse)
         IN  FilterLoop_prepend(opportunities, penny_ndcs, i + 1,
                 IF ndc \in penny_ndcs \/ Truthy(is_penny)
                 THEN filtered
                 ELSE <<opp>> \o filtered)

filter_top_opportunities_newest_first(opportunities, nadac_df, penny_ndcs) ==
    FilterLoop_prepend(opportunities, PennyNdcs(nadac_df, penny_ndcs), 1, <<>>)

filter_top_opportunities(opportunities, nadac_df, penny_ndcs) ==
    FilterLoop(opportunities, PennyNdcs(nadac_df, penny_ndcs), 1, <<>>)

\* status["input_name"] = name
WithInputName(status, name) ==
    [f \in DOMAIN status \cup {"input_name"} |->
        IF f = "input_name" THEN name ELSE status[f]]

\* the loop of filter_ira_drugs from the i-th name on
RECURSIVE FilterIraLoop(_, _, _)
FilterIraLoop(drug_names, i, ira_drugs) ==
    IF i > Len(drug_names) THEN ira_drugs
    ELSE LET name   == drug_names[i]
             status == check_ira_status(name)
         IN  FilterIraLoop(drug_names, i + 1,
                           IF status.is_ira_drug
                           THEN Append(ira_drugs, WithInputName(status, name))
                           ELSE ira_drugs)

\* mutant: input_name is the name as it was looked up, upper-cased and stripped
RECURSIVE FilterIraLoop_normalized_name(_, _, _)
FilterIraLoop_normalized_name(drug_names, i, ira_drugs) ==
    IF i > Len(drug_names) THEN ira_drugs
    ELSE LET name   == drug_names[i]
             status == check_ira_status(name)
         IN  FilterIraLoop_normalized_name(drug_names, i + 1,
                 IF status.is_ira_drug
                 THEN Append(ira_drugs,
                             WithInputName(status, Strip(Upper(name))))
                 ELSE ira_drugs)

filter_ira_drugs_normalized_name(drug_names) ==
    FilterIraLoop_normalized_name(drug_names.items, 1, <<>>)

filter_ira_drugs(drug_names) == FilterIraLoop(drug_names.items, 1, <<>>)

(***************************************************************************)
(* The NDC keys: Drug.ndc_normalized of models.py, _normalize_ndc of       *)
(* ui/pages/ndc_lookup.py and the lookup key of the dashboard.             *)
(***************************************************************************)
\* the width both zfill calls pad to
NDC_WIDTH == 11

Digits == {"0", "1", "2", "3", "4", "5", "6", "7", "8", "9"}

\* s.replace(c, "") for a single character c
Remove(s, c) == SelectSeq(s, LAMBDA x : x # c)

Zeros(n) == [i \in 1..n |-> "0"]

\* s.zfill(width): the zeros follow a leading sign
ZFill(s, width) ==
    IF Len(s) >= width THEN s
    ELSE IF s # <<>> /\ Head(s) \in {"+", "-"}
         THEN <<Head(s)>> \o Zeros(width - Len(s)) \o Tail(s)
         ELSE Zeros(width - Len(s)) \o s

\* s[-n:]
Last(s, n) == IF Len(s) <= n THEN s ELSE SubSeq(s, Len(s) - n + 1, Len(s))

\* Drug.ndc_normalized
ndc_normalized(ndc) ==
    LET cleaned == Remove(Remove(ndc, "-"), " ")
    IN  Last(ZFill(cleaned, NDC_WIDTH), NDC_WIDTH)

\* ndc_lookup._normalize_ndc; ndc is a cell, a Str or None, and pd.isna
\* holds of None
normalize_ndc(ndc) ==
    IF ndc = None THEN <<>>
    ELSE LET ndc_str   == Strip(ndc.str)
             ndc_clean == SelectSeq(ndc_str, LAMBDA c : c \in Digits)
         IN  ZFill(ndc_clean, NDC_WIDTH)

\* the key _row_to_drug looks the NDC of a catalog row up by
\* (ndc.replace("-", "").strip()); a row with an empty NDC gets none
row_to_drug_key(ndc) == Strip(Remove(ndc, "-"))

(***************************************************************************)
(* The inputs of the model.                                                *)
(***************************************************************************)
Prices == {Decimal(k * 5000, -2) : k \in 0..MaxPrice}

HcpcsCodes == {None, [code |-> "J0135"]}

Drug(contract_cost, awp, asp, hcpcs_code, bill_units_per_package) ==
    [contract_cost |-> contract_cost, awp |-> awp, asp |-> asp,
     hcpcs_code |-> hcpcs_code,
     bill_units_per_package |-> bill_units_per_package]

\* the drug of the precision tests: 150.00 / 6500.00 / 2800.00, 2 units
HumiraDrug ==
    Drug(Decimal(15000, -2), Decimal(650000, -2), Decimal(280000, -2),
         [code |-> "J0135"], 2)

\* the drug of the commercial-vs-medicare test: 100.00 / 1000.00 / 500.00
TestDrug ==
    Drug(Decimal(10000, -2), Decimal(100000, -2), Decimal(50000, -2),
         [code |-> "J9999"], 1)

\* a drug Medicare reimburses at cost: 106.00 / 1000.00 / 100.00, 1 unit
BreakEvenDrug ==
    Drug(Decimal(10600, -2), Decimal(100000, -2), Decimal(10000, -2),
         [code |-> "J9999"], 1)

Drugs ==
    {Drug(c, a, s, h, u) :
        c \in Prices, a \in Prices, s \in Prices \cup {None},
        h \in HcpcsCodes, u \in 1..MaxUnits}
    \cup {HumiraDrug, TestDrug, BreakEvenDrug}

CaptureRates ==
    {Decimal(r, -2) : r \in {-10, 0, 40, 45, 60, 80, 100, 150}}

PayerTypes == {"medicare", "Medicare", "commercial"}

Margins == {Decimal(m, 0) : m \in (0 - MaxMargin)..MaxMargin}

\* the rates of the sensitivity test: 0.20, 0.40, 0.60, 0.80
SensitivityRates == {Decimal(r, -2) : r \in {20, 40, 60, 80}}

\* a Python list object
List(items) == [items |-> items]

RateLists ==
    {None} \cup {List(rs) : rs \in UNION {[1..n -> SensitivityRates] : n \in 0..MaxRates}}

\* the calls of each function
RetailMarginCalls ==
    {[fn |-> "calculate_retail_margin", drug |-> d, capture_rate |-> r] :
        d \in Drugs, r \in CaptureRates}

MedicareMarginCalls ==
    {[fn |-> "calculate_medicare_margin", drug |-> d] : d \in Drugs}

CommercialMarginCalls ==
    {[fn |-> "calculate_commercial_margin", drug |-> d] : d \in Drugs}

RecommendationCalls ==
    {[fn |-> "determine_recommendation", retail_net |-> r, medicare |-> m,
      commercial |-> c] :
        r \in Margins, m \in Margins \cup {None}, c \in Margins \cup {None}}

AnalyzeCalls ==
    {[fn |-> "analyze_drug_margin", drug |-> d, capture_rate |-> r] :
        d \in Drugs, r \in CaptureRates}

PayerCalls ==
    {[fn |-> "analyze_drug_with_payer", drug |-> d, payer_type |-> p,
      capture_rate |-> r] :
        d \in Drugs, p \in PayerTypes, r \in CaptureRates}

SensitivityCalls ==
    {[fn |-> "calculate_margin_sensitivity", drug |-> d, capture_rates |-> rs] :
        d \in Drugs, rs \in RateLists}

\* the analyses displayed: of every drug, at the default rate and at 1.00
DisplayRates == {DEFAULT_CAPTURE_RATE, Decimal(100, -2)}

DisplayCalls ==
    {[fn |-> "to_display_dict", analysis |-> analyze_drug_margin(d, r)] :
        d \in Drugs, r \in DisplayRates}

\* the characters of the short NDCs
NdcChars == {"0", "1", "-", " "}

\* NDCs the tests normalize, and one of twelve digits
SampleNdcs ==
    {<<"1", "2", "3", "4", "5">>,
     <<"0", "0", "7", "4", "-", "4", "3", "3", "9", "-", "0", "2">>,
     <<"0", "0", "7", "4", " ", "4", "3", "3", "9", " ", "0", "2">>,
     <<"1", "2", "3", "4", "5", "6", "7", "8", "9", "0", "1">>,
     <<"1", "2", "3", "4", "5", "6", "7", "8", "9", "0", "1", "2">>}

NdcStrings ==
    UNION {[1..n -> NdcChars] : n \in 0..MaxNdcLen} \cup SampleNdcs

NdcNormalizedCalls == {[fn |-> "ndc_normalized", ndc |-> n] : n \in NdcStrings}

\* the calls on the cells of an NDC column, a null cell among them
NormalizeNdcCalls ==
    {[fn |-> "_normalize_ndc", ndc |-> n] :
        n \in {Str(s) : s \in NdcStrings} \cup {None}}

\* the characters of the short drug names
NameChars == {"E", "L", "i", " "}

\* names the validation script and the tests pass, and variants of them
SampleNames ==
    {<<"E", "N", "B", "R", "E", "L">>,
     <<"e", "n", "b", "r", "e", "l">>,
     <<" ", "E", "n", "b", "r", "e", "l", " ">>,
     <<"O", "Z", "E", "M", "P", "I", "C">>,
     <<"H", "U", "M", "I", "R", "A">>,
     <<"M", "E", "T", "F", "O", "R", "M", "I", "N">>,
     <<"F", "I", "A", "S", "P", " ", "F", "L", "E", "X", "T", "O", "U", "C", "H">>,
     <<"E", "N", "B", "R", "E", "L", " ", "M", "I", "N", "I">>,
     <<" ", "\t", " ", " ">>}

DrugNames ==
    UNION {[1..n -> NameChars] : n \in 0..MaxLen} \cup SampleNames

IraStatusCalls == {[fn |-> "check_ira_status", drug_name |-> n] : n \in DrugNames}

\* the names of the lists filtered: the sample names, the empty name and a
\* fragment of a registry name
FilterNames == SampleNames \cup {<<>>, <<"i", "L">>}

NameLists ==
    {List(ns) : ns \in UNION {[1..n -> FilterNames] : n \in 0..MaxNames}}

FilterIraCalls == {[fn |-> "filter_ira_drugs", drug_names |-> ns] : ns \in NameLists}

\* NDCs in the tables: one written with dashes, one without
NdcValues == {<<"1", "-", "2">>, <<"3">>}

\* discounts just below and at HIGH_DISCOUNT_THRESHOLD, or null
Discounts == {None, Decimal(949, -1), Decimal(950, -1)}

\* unit prices at and just above PENNY_THRESHOLD, or null
UnitPrices == {None, Decimal(10, -2), Decimal(11, -2)}

DataFrame(columns, rows) == [columns |-> columns, rows |-> rows]

\* the values a cell of a column takes: the default throughout for a
\* missing column
Cells(columns, column, values) ==
    IF column \in columns THEN values
    ELSE IF column = "ndc" THEN {<<>>} ELSE {None}

\* the tables with the given columns and up to MaxRows rows
FramesOf(columns, flags, prices, discounts) ==
    {DataFrame(columns, rows) :
        rows \in UNION {[1..n ->
                    [ndc : Cells(columns, "ndc", NdcValues),
                     penny_pricing : Cells(columns, "penny_pricing", flags),
                     nadac_per_unit : Cells(columns, "nadac_per_unit", prices),
                     total_discount_340b_pct :
                         Cells(columns, "total_discount_340b_pct", discounts)]] :
                    n \in 0..MaxRows}}

Frames(column_sets, flags, prices, discounts) ==
    UNION {FramesOf(columns, flags, prices, discounts) : columns \in column_sets}

\* a table without columns has no rows
NonEmptySubsets(S) == SUBSET S \ {{}}

BulkFrames ==
    {DataFrame({}, <<>>)} \cup
    Frames(NonEmptySubsets({"ndc", "penny_pricing", "total_discount_340b_pct"}),
           {None, PyTrue, PyFalse}, {None}, Discounts)

\* rows with neither a price nor a discount, to stand before the last row
LeadingRows(columns) ==
    [ndc : Cells(columns, "ndc", NdcValues),
     penny_pricing : Cells(columns, "penny_pricing", {PyTrue, PyFalse}),
     nadac_per_unit : {None},
     total_discount_340b_pct : {None}]

\* tables for the lookup of one drug: up to MaxRows rows, the last of them
\* with any cells
DrugFramesOf(columns) ==
    {DataFrame(columns, lead \o f.rows) :
        lead \in UNION {[1..n -> LeadingRows(columns)] : n \in 0..(MaxRows - 1)},
        f \in {g \in FramesOf(columns, {PyTrue, PyFalse}, UnitPrices, Discounts) :
                  Len(g.rows) = 1}}

DrugFrames ==
    {DataFrame(columns, <<>>) :
        columns \in SUBSET {"ndc", "penny_pricing", "nadac_per_unit",
                             "total_discount_340b_pct"}}
    \cup
    UNION {DrugFramesOf(columns) :
             columns \in NonEmptySubsets({"ndc", "penny_pricing", "nadac_per_unit",
                                          "total_discount_340b_pct"})}

\* tables of two rows whose NDCs differ by a leading blank only
SpacedFrames ==
    {DataFrame({"ndc", "penny_pricing"},
               <<[ndc |-> <<" ", "3">>, penny_pricing |-> a,
                  nadac_per_unit |-> None, total_discount_340b_pct |-> None],
                 [ndc |-> <<"3">>, penny_pricing |-> b,
                  nadac_per_unit |-> None, total_discount_340b_pct |-> None]>>) :
        a \in {PyTrue, PyFalse}, b \in {PyTrue, PyFalse}}

PennyCalls ==
    {[fn |-> "check_penny_pricing", nadac_df |-> f] :
        f \in BulkFrames \cup SpacedFrames}

\* the NDCs asked about: spellings of a table's NDC, and one no table has
DrugNdcs ==
    {<<"1", "2">>, <<"1", "-", "2">>, <<" ", "1", "2">>, <<"4">>}

PennyDrugCalls ==
    {[fn |-> "check_penny_pricing_for_drug", ndc |-> n, nadac_df |-> f] :
        n \in DrugNdcs, f \in DrugFrames}
    \cup
    {[fn |-> "check_penny_pricing_for_drug", ndc |-> n, nadac_df |-> f] :
        n \in {<<"3">>, <<" ", "3">>}, f \in SpacedFrames}

\* an opportunity dict: an 'ndc' item or none, then a 'penny_pricing' item
\* or none
Opportunities ==
    {ndc \o flag :
        ndc \in {<<>>} \cup {<<[key |-> "ndc", value |-> Str(n)]>> : n \in NdcValues},
        flag \in {<<>>} \cup {<<[key |-> "penny_pricing", value |-> b]>> :
                                  b \in {PyTrue, PyFalse}}}

OpportunityLists == UNION {[1..n -> Opportunities] : n \in 0..MaxOpps}

\* tables given to filter_top_opportunities: with the flag column, or with
\* no penny pricing column at all
FilterFrames ==
    Frames({{"ndc", "penny_pricing"}, {"ndc"}}, {PyTrue, PyFalse}, {None}, {None})

FilterCalls ==
    {[fn |-> "filter_top_opportunities", opportunities |-> os,
      nadac_df |-> f, penny_ndcs |-> None] :
        os \in OpportunityLists, f \in {None} \cup FilterFrames}
    \cup
    {[fn |-> "filter_top_opportunities", opportunities |-> os,
      nadac_df |-> f, penny_ndcs |-> SetOf(ns)] :
        os \in OpportunityLists,
        f \in {None, DataFrame({"ndc", "penny_pricing"},
                  <<[ndc |-> <<"3">>, penny_pricing |-> PyTrue,
                     nadac_per_unit |-> None,
                     total_discount_340b_pct |-> None]>>)},
        ns \in SUBSET NdcValues}

(***************************************************************************)
(* The state machine: a call is chosen, then the function returns.         *)
(***************************************************************************)
Init ==
    /\ pc = "called"
    /\ ret = None
    /\ registries = <<InitialRegistry>>
    /\ frame = None
    /\ \/ call \in RetailMarginCalls
       \/ call \in MedicareMarginCalls
       \/ call \in CommercialMarginCalls
       \/ call \in RecommendationCalls
       \/ call \in AnalyzeCalls
       \/ call \in PayerCalls
       \/ call \in SensitivityCalls
       \/ call \in IraStatusCalls
       \/ call \in PennyCalls
       \/ call \in PennyDrugCalls
       \/ call \in FilterCalls
       \/ call \in DisplayCalls
       \/ call \in FilterIraCalls
       \/ call \in NdcNormalizedCalls
       \/ call \in NormalizeNdcCalls

CalculateRetailMargin ==
    /\ pc = "called" /\ call.fn = "calculate_retail_margin"
    /\ ret' = calculate_retail_margin(call.drug, call.capture_rate)
    /\ pc' = "returned"
    /\ UNCHANGED <<call, registries, frame>>

CalculateMedicareMargin ==
    /\ pc = "called" /\ call.fn = "calculate_medicare_margin"
    /\ ret' = calculate_medicare_margin(call.drug)
    /\ pc' = "returned"
    /\ UNCHANGED <<call, registries, frame>>

CalculateCommercialMargin ==
    /\ pc = "called" /\ call.fn = "calculate_commercial_margin"
    /\ ret' = calculate_commercial_margin(call.drug)
    /\ pc' = "returned"
    /\ UNCHANGED <<call, registries, frame>>

DetermineRecommendation ==
    /\ pc = "called" /\ call.fn = "determine_recommendation"
    /\ ret' = determine_recommendation(call.retail_net, call.medicare,
                                       call.commercial)
    /\ pc' = "returned"
    /\ UNCHANGED <<call, registries, frame>>

AnalyzeDrugMargin ==
    /\ pc = "called" /\ call.fn = "analyze_drug_margin"
    /\ ret' = analyze_drug_margin(call.drug, call.capture_rate)
    /\ pc' = "returned"
    /\ UNCHANGED <<call, registries, frame>>

AnalyzeDrugWithPayer ==
    /\ pc = "called" /\ call.fn = "analyze_drug_with_payer"
    /\ ret' = analyze_drug_with_payer(call.drug, call.payer_type,
                                      call.capture_rate)
    /\ pc' = "returned"
    /\ UNCHANGED <<call, registries, frame>>

CalculateMarginSensitivity ==
    /\ pc = "called" /\ call.fn = "calculate_margin_sensitivity"
    /\ ret' = calculate_margin_sensitivity(call.drug, call.capture_rates)
    /\ pc' = "returned"
    /\ UNCHANGED <<call, registries, frame>>

CheckIraStatus ==
    /\ pc = "called" /\ call.fn = "check_ira_status"
    /\ ret' = check_ira_status(call.drug_name)
    /\ pc' = "returned"
    /\ UNCHANGED <<call, registries, frame>>

CheckPennyPricing ==
    /\ pc = "called" /\ call.fn = "check_penny_pricing"
    /\ ret' = check_penny_pricing(call.nadac_df)
    /\ pc' = "returned"
    /\ UNCHANGED <<call, registries, frame>>

CheckPennyPricingForDrug ==
    /\ pc = "called" /\ call.fn = "check_penny_pricing_for_drug"
    /\ ret' = check_penny_pricing_for_drug(call.ndc, call.nadac_df)
    /\ pc' = "returned"
    /\ UNCHANGED <<call, registries, frame>>

FilterTopOpportunities ==
    /\ pc = "called" /\ call.fn = "filter_top_opportunities"
    /\ ret' = filter_top_opportunities(call.opportunities, call.nadac_df,
                                       call.penny_ndcs)
    /\ pc' = "returned"
    /\ UNCHANGED <<call, registries, frame>>

ToDisplayDict ==
    /\ pc = "called" /\ call.fn = "to_display_dict"
    /\ ret' = to_display_dict(call.analysis)
    /\ pc' = "returned"
    /\ UNCHANGED <<call, registries, frame>>

NdcNormalized ==
    /\ pc = "called" /\ call.fn = "ndc_normalized"
    /\ ret' = ndc_normalized(call.ndc)
    /\ pc' = "returned"
    /\ UNCHANGED <<call, registries, frame>>

NormalizeNdcLookup ==
    /\ pc = "called" /\ call.fn = "_normalize_ndc"
    /\ ret' = normalize_ndc(call.ndc)
    /\ pc' = "returned"
    /\ UNCHANGED <<call, registries, frame>>

FilterIraDrugs ==
    /\ pc = "called" /\ call.fn = "filter_ira_drugs"
    /\ ret' = filter_ira_drugs(call.drug_names)
    /\ pc' = "returned"
    /\ UNCHANGED <<call, registries, frame>>

Next ==
    \/ CalculateRetailMargin
    \/ CalculateMedicareMargin
    \/ CalculateCommercialMargin
    \/ DetermineRecommendation
    \/ AnalyzeDrugMargin
    \/ AnalyzeDrugWithPayer
    \/ CalculateMarginSensitivity
    \/ CheckIraStatus
    \/ CheckPennyPricing
    \/ CheckPennyPricingForDrug
    \/ FilterTopOpportunities
    \/ ToDisplayDict
    \/ FilterIraDrugs
    \/ NdcNormalized
    \/ NormalizeNdcLookup

Spec == Init /\ [][Next]_vars

(***************************************************************************)
(* check_ira_status line by line, next to reloads of the registry.  Each   *)
(* action runs the code up to and including its next read of a global.     *)
(***************************************************************************)
\* registry tables the upload page may install
ReloadTables ==
    {<<[drug_name |-> <<"E", "N", "B", "R", "E", "L">>, year |-> 2027,
        description |-> "Autoimmune (etanercept), renegotiated"],
       [drug_name |-> <<"H", "U", "M", "I", "R", "A">>, year |-> 2027,
        description |-> "Autoimmune (adalimumab)"]>>,
     <<[drug_name |-> <<"O", "Z", "E", "M", "P", "I", "C">>, year |-> 2026,
        description |-> "Diabetes/Weight (semaglutide)"]>>}

\* the module globals as they are now
Globals == registries[Len(registries)]

InitReload ==
    /\ pc = "called"
    /\ ret = None
    /\ registries = <<InitialRegistry>>
    /\ frame = None
    /\ call \in IraStatusCalls

\* the upload page installs a new registry
ReloadIraDrugs ==
    /\ Len(registries) <= MaxReloads
    /\ \E rows \in ReloadTables :
          registries' = Append(registries, reload_ira_drugs(rows))
    /\ UNCHANGED <<call, ret, pc, frame>>

\* lines 109-123: the empty-name guard, the normalization and the test
\* name_upper in IRA_DRUGS_BY_YEAR
LookupName ==
    /\ pc = "called" /\ call.fn = "check_ira_status"
    /\ IF call.drug_name = <<>>
       THEN /\ ret' = [is_ira_drug |-> FALSE, ira_year |-> None,
                       drug_name |-> None, description |-> None,
                       warning_message |-> <<"No drug name provided">>,
                       risk_level |-> "Unknown"]
            /\ pc' = "returned"
            /\ frame' = frame
       ELSE LET name_upper == Strip(Upper(call.drug_name)) IN
            /\ frame' = [name_upper |-> name_upper, kind |-> "exact",
                         ira_drug |-> name_upper, year |-> 0,
                         has_description |-> FALSE]
            /\ pc' = IF HasKey(Globals.IRA_DRUGS_BY_YEAR, name_upper)
                     THEN "exact_year" ELSE "partial_items"
            /\ ret' = ret
    /\ UNCHANGED <<call, registries>>

\* line 124: year = IRA_DRUGS_BY_YEAR[name_upper]
ReadExactYear ==
    /\ pc = "exact_year"
    /\ IF HasKey(Globals.IRA_DRUGS_BY_YEAR, frame.name_upper)
       THEN /\ frame' = [frame EXCEPT
                            !.year = DictGet(Globals.IRA_DRUGS_BY_YEAR,
                                             frame.name_upper)]
            /\ pc' = "description_2026"
            /\ ret' = ret
       ELSE /\ ret' = KeyError
            /\ pc' = "returned"
            /\ frame' = frame
    /\ UNCHANGED <<call, registries>>

\* lines 145-146: the loop over IRA_DRUGS_BY_YEAR.items(), and lines 165-173
\* when it ends without a match
ReadItems ==
    /\ pc = "partial_items"
    /\ LET by_year == Globals.IRA_DRUGS_BY_YEAR
           i       == PartialMatchIn(by_year, frame.name_upper, 1)
       IN  IF i # 0
           THEN /\ frame' = [frame EXCEPT !.kind = "partial",
                                          !.ira_drug = by_year[i].key,
                                          !.year = by_year[i].value]
                /\ pc' = "description_2026"
                /\ ret' = ret
           ELSE /\ ret' = [is_ira_drug |-> FALSE, ira_year |-> None,
                           drug_name |-> None, description |-> None,
                           warning_message |-> <<"No IRA risk detected">>,
                           risk_level |-> "Low Risk"]
                /\ pc' = "returned"
                /\ frame' = frame
    /\ UNCHANGED <<call, registries>>

\* lines 125-126 and 147-148: IRA_2026_DRUGS.get(name), returned when truthy
ReadDescription2026 ==
    /\ pc = "description_2026"
    /\ IF HasDescription(Globals.IRA_2026_DRUGS, frame.ira_drug)
       THEN /\ frame' = [frame EXCEPT !.has_description = TRUE]
            /\ ret' = IraResult(frame.kind, call.drug_name, frame.ira_drug,
                                frame.year,
                                DictGet(Globals.IRA_2026_DRUGS, frame.ira_drug))
            /\ pc' = "returned"
       ELSE /\ pc' = "description_2027"
            /\ UNCHANGED <<ret, frame>>
    /\ UNCHANGED <<call, registries>>

\* lines 126-142 and 148-163: ... or IRA_2027_DRUGS.get(name), and the return
ReadDescription2027 ==
    /\ pc = "description_2027"
    /\ LET found == HasKey(Globals.IRA_2027_DRUGS, frame.ira_drug) IN
       /\ frame' = [frame EXCEPT !.has_description = found]
       /\ ret' = IraResult(frame.kind, call.drug_name, frame.ira_drug,
                           frame.year,
                           IF found
                           THEN DictGet(Globals.IRA_2027_DRUGS, frame.ira_drug)
                           ELSE None)
    /\ pc' = "returned"
    /\ UNCHANGED <<call, registries>>

NextReload ==
    \/ ReloadIraDrugs
    \/ LookupName
    \/ ReadExactYear
    \/ ReadItems
    \/ ReadDescription2026
    \/ ReadDescription2027

SpecReload == InitReload /\ [][NextReload]_vars

\* the call of function f has returned
Returned(f) == pc = "returned" /\ call.fn = f

(***************************************************************************)
(* Properties.  Helpers read a Decimal as an integer count of a fixed      *)
(* unit, so that the properties are stated in integer arithmetic.          *)
(***************************************************************************)
\* d in hundredths (d has at most 2 decimal places)
Cents(d) == d.coef * Pow10(d.exp + 2)

\* d in ten-thousandths (d has at most 4 decimal places)
TenThousandths(d) == d.coef * Pow10(d.exp + 4)

\* d as an integer (d has no decimal places)
IntValue(d) == d.coef * Pow10(d.exp)

HasBothMedicalFields(drug) == drug.asp # None /\ drug.hcpcs_code # None

\* C1: every MarginAnalysis returned by analyze_drug_margin has
\* margin_delta >= 0, retail-only drugs included.
C1_MarginDeltaNonNegative ==
    Returned("analyze_drug_margin") => ret.margin_delta.coef >= 0

CallCandidates ==
    <<[path |-> RETAIL, value |-> IntValue(call.retail_net)]>>
    \o (IF call.medicare = None THEN <<>>
        ELSE <<[path |-> MEDICARE_MEDICAL, value |-> IntValue(call.medicare)]>>)
    \o (IF call.commercial = None THEN <<>>
        ELSE <<[path |-> COMMERCIAL_MEDICAL,
                value |-> IntValue(call.commercial)]>>)

\* C3: determine_recommendation returns a path of maximum margin among the
\* available candidates, and of several at the maximum the first in the
\* order RETAIL, MEDICARE_MEDICAL, COMMERCIAL_MEDICAL.
C3_BestIsFirstMaximum ==
    Returned("determine_recommendation") =>
        LET c == CallCandidates IN
        \E i \in 1..Len(c) :
            /\ ret.path = c[i].path
            /\ \A j \in 1..Len(c) : c[i].value >= c[j].value
            /\ \A j \in 1..(i - 1) : c[j].value < c[i].value

C3_Witness ==
    /\ Returned("determine_recommendation")
    /\ call.medicare # None /\ call.commercial # None
    /\ call.medicare = call.commercial
    /\ DecGt(call.medicare, call.retail_net)
    /\ ret.path = MEDICARE_MEDICAL

C5_NoMedicalPathIsRetail ==
    Returned("analyze_drug_margin") /\ ~HasBothMedicalFields(call.drug) =>
        /\ ret.recommended_path = RETAIL
        /\ ret.medicare_margin = None
        /\ ret.commercial_margin = None

C5_Witness ==
    /\ Returned("analyze_drug_margin")
    /\ call.drug.asp # None /\ call.drug.asp.coef > 0
    /\ call.drug.hcpcs_code = None
    /\ ret.recommended_path = RETAIL
    /\ ret.medicare_margin = None
    /\ ret.commercial_margin = None

\* C6: the margins are the exact values of the formulas
\* awp * 0.85 - contract_cost, asp * 1.06 * bill_units - contract_cost and
\* asp * 1.15 * bill_units - contract_cost (no digit below 0.0001 is lost),
\* and for 150.00 / 6500.00 / 2800.00 / 2 units they are 5375.00, 5786.00
\* and 6290.00.
C6_MarginsExact ==
    /\ Returned("calculate_retail_margin") =>
        /\ ret.gross.exp >= -4
        /\ TenThousandths(ret.gross)
              = 85 * Cents(call.drug.awp) - 100 * Cents(call.drug.contract_cost)
        /\ call.drug = HumiraDrug => ret.gross = Decimal(537500, -2)
    /\ Returned("calculate_medicare_margin") /\ HasBothMedicalFields(call.drug) =>
        /\ ret.exp >= -4
        /\ TenThousandths(ret)
              = 106 * Cents(call.drug.asp) * call.drug.bill_units_per_package
                - 100 * Cents(call.drug.contract_cost)
        /\ call.drug = HumiraDrug => ret = Decimal(578600, -2)
    /\ Returned("calculate_commercial_margin") /\ HasBothMedicalFields(call.drug) =>
        /\ ret.exp >= -4
        /\ TenThousandths(ret)
              = 115 * Cents(call.drug.asp) * call.drug.bill_units_per_package
                - 100 * Cents(call.drug.contract_cost)
        /\ call.drug = HumiraDrug => ret = Decimal(629000, -2)

C6_Witness ==
    /\ Returned("calculate_medicare_margin")
    /\ call.drug = HumiraDrug
    /\ ret = Decimal(578600, -2)

\* consecutive elements of a list of Decimals differ by the same amount
EvenlySpaced(xs) ==
    \A i \in 1..(Len(xs) - 1) : DecSub(xs[i + 1], xs[i]) = DecSub(xs[2], xs[1])

NamedPayerMargin ==
    IF call.payer_type = "medicare" THEN calculate_medicare_margin(call.drug)
    ELSE calculate_commercial_margin(call.drug)

NamedPayerPath ==
    IF call.payer_type = "medicare" THEN MEDICARE_MEDICAL ELSE COMMERCIAL_MEDICAL

NamedPayerCall ==
    /\ Returned("analyze_drug_with_payer")
    /\ call.payer_type \in {"medicare", "commercial"}

\* C8: analyze_drug_with_payer recommends the named payer's path exactly when
\* that payer's margin is present and strictly greater than the retail net
\* margin, and RETAIL otherwise.
C8_NamedPayerOrRetail ==
    NamedPayerCall =>
        ret.recommended_path =
            IF /\ NamedPayerMargin # None
               /\ DecGt(NamedPayerMargin,
                        calculate_retail_margin(call.drug, call.capture_rate).net)
            THEN NamedPayerPath
            ELSE RETAIL

\* the other payer's margin is the greatest of the three, and RETAIL is
\* recommended all the same
C8_Witness ==
    /\ NamedPayerCall
    /\ call.payer_type = "medicare"
    /\ ret.medicare_margin # None
    /\ DecGt(ret.commercial_margin, ret.retail_net_margin)
    /\ DecGt(ret.retail_net_margin, ret.medicare_margin)
    /\ ret.recommended_path = RETAIL

\* C9: margin_delta of analyze_drug_with_payer is the absolute value of
\* (named payer's margin - retail net margin) when that margin is present,
\* and is never negative.
C9_DeltaAbsolute ==
    NamedPayerCall =>
        /\ ret.margin_delta.coef >= 0
        /\ NamedPayerMargin # None =>
            \/ ret.margin_delta = DecSub(NamedPayerMargin, ret.retail_net_margin)
            \/ ret.margin_delta = DecSub(ret.retail_net_margin, NamedPayerMargin)

C9_Witness ==
    /\ NamedPayerCall
    /\ NamedPayerMargin = None
    /\ ret.retail_net_margin.coef < 0
    /\ ret.recommended_path = RETAIL
    /\ ret.margin_delta.coef > 0

\* C10: check_ira_status answers is_ira_drug = FALSE and risk level "Unknown"
\* for every name that is empty or made of whitespace only.
C10_BlankNameUnknown ==
    /\ Returned("check_ira_status")
    /\ \A i \in 1..Len(call.drug_name) : call.drug_name[i] \in Whitespace
    => ret.is_ira_drug = FALSE /\ ret.risk_level = "Unknown"

\* the registry names of a list, upper-cased as the registry keeps them
RegistryNames(drugs) == {Upper(drugs[i].key) : i \in 1..Len(drugs)}

\* the name an IRA lookup works on
Normalized(drug_name) == Strip(Upper(drug_name))

\* C11: a non-empty name that, upper-cased and stripped, equals a registry
\* name is reported as an IRA drug at 'High Risk' under exactly that name and
\* with that name's year, whatever shorter registry names it contains.
C11_ExactMatchWins ==
    (Returned("check_ira_status") /\ call.drug_name # <<>>) =>
        LET name == Normalized(call.drug_name) IN
        /\ name \in RegistryNames(IRA_2026_DRUGS) \ RegistryNames(IRA_2027_DRUGS) =>
              /\ ret.is_ira_drug /\ ret.risk_level = "High Risk"
              /\ ret.drug_name = name /\ ret.ira_year = 2026
        /\ name \in RegistryNames(IRA_2027_DRUGS) =>
              /\ ret.is_ira_drug /\ ret.risk_level = "High Risk"
              /\ ret.drug_name = name /\ ret.ira_year = 2027

\* 'FIASP FLEXTOUCH' has been looked up and matched as itself, not as 'FIASP'
C11_Witness ==
    /\ Returned("check_ira_status")
    /\ Normalized(call.drug_name) =
           <<"F", "I", "A", "S", "P", " ", "F", "L", "E", "X", "T", "O", "U", "C", "H">>
    /\ ret.drug_name = Normalized(call.drug_name)
    /\ ret.ira_year = 2026

\* registry name a and looked-up name b: one is a substring of the other
SubstringRelated(a, b) ==
    \/ \E i \in 0..(Len(b) - Len(a)) : \A k \in 1..Len(a) : b[i + k] = a[k]
    \/ \E i \in 0..(Len(a) - Len(b)) : \A k \in 1..Len(b) : a[i + k] = b[k]

LookupIn(reg, drug_name) ==
    LET name_upper == Normalized(drug_name)
        by_year    == reg.IRA_DRUGS_BY_YEAR
        exact      == {i \in 1..Len(by_year) : by_year[i].key = name_upper}
        related    == {i \in 1..Len(by_year) :
                          SubstringRelated(by_year[i].key, name_upper)}
        hits       == IF exact # {} THEN exact ELSE related
    IN  IF drug_name = <<>>
        THEN [is_ira_drug |-> FALSE, risk_level |-> "Unknown"]
        ELSE IF hits = {}
        THEN [is_ira_drug |-> FALSE, risk_level |-> "Low Risk"]
        ELSE LET i    == CHOOSE i \in hits : \A j \in hits : i <= j
                 name == by_year[i].key
                 in26 == HasDescription(reg.IRA_2026_DRUGS, name)
                 in27 == HasKey(reg.IRA_2027_DRUGS, name)
             IN  [is_ira_drug |-> TRUE, risk_level |-> "High Risk",
                  drug_name |-> name, ira_year |-> by_year[i].value,
                  has_description |-> in26 \/ in27,
                  description |->
                      IF in26 THEN DictGet(reg.IRA_2026_DRUGS, name)
                      ELSE IF in27 THEN DictGet(reg.IRA_2027_DRUGS, name)
                      ELSE ""]

\* the result returned is the one a lookup in registry reg alone gives
ComputedFrom(reg) ==
    LET e == LookupIn(reg, call.drug_name) IN
    /\ ret # KeyError
    /\ ret.is_ira_drug = e.is_ira_drug
    /\ ret.risk_level = e.risk_level
    /\ e.is_ira_drug =>
          /\ ret.drug_name = e.drug_name
          /\ ret.ira_year = e.ira_year
          /\ frame.has_description = e.has_description
          /\ e.has_description => ret.description = e.description

\* C13: a check_ira_status lookup that runs next to reloads of the registry
\* returns what a lookup in one of the registry versions alone returns:
\* match decision, year and description all come from the same version.
C13_LookupSeesOneRegistry ==
    (pc = "returned" /\ call.fn = "check_ira_status") =>
        \E v \in 1..Len(registries) : ComputedFrom(registries[v])

\* d in tenths (d has at most 1 decimal place)
Tenths(d) == d.coef * Pow10(d.exp + 1)

\* the row's explicit flag is true or its discount is at least 95.0
FlaggedRow(row) ==
    \/ row.penny_pricing = PyTrue
    \/ /\ row.total_discount_340b_pct # None
       /\ Tenths(row.total_discount_340b_pct) >= 950

\* the indices of the flagged rows of a table
FlaggedIndices(rows) == {i \in 1..Len(rows) : FlaggedRow(rows[i])}

\* the k-th smallest element of a set of indices
Kth(indices, k) ==
    CHOOSE i \in indices : Cardinality({j \in indices : j <= i}) = k

\* C14: check_penny_pricing returns one entry per row whose explicit flag is
\* true or whose discount is >= 95.0, and for no other row, in row order.
C14_FlaggedRowsInOrder ==
    Returned("check_penny_pricing") =>
        LET rows    == call.nadac_df.rows
            flagged == FlaggedIndices(rows)
        IN  /\ Len(ret) = Cardinality(flagged)
            /\ \A k \in 1..Len(ret) :
                  LET row == rows[Kth(flagged, k)] IN
                  /\ ret[k].is_penny_priced
                  /\ ret[k].ndc = RowNdc(call.nadac_df, row)
                  /\ ret[k].discount_pct = row.total_discount_340b_pct

\* of two rows the first, flag False below the threshold, is passed over and
\* the second, flag False at the threshold, is the one entry
C14_Witness ==
    /\ Returned("check_penny_pricing")
    /\ Len(call.nadac_df.rows) = 2
    /\ call.nadac_df.rows[1].penny_pricing = PyFalse
    /\ call.nadac_df.rows[1].total_discount_340b_pct = Decimal(949, -1)
    /\ call.nadac_df.rows[2].penny_pricing = PyFalse
    /\ call.nadac_df.rows[2].total_discount_340b_pct = Decimal(950, -1)
    /\ Len(ret) = 1
    /\ ret[1].ndc = call.nadac_df.rows[2].ndc

\* the 'ndc' of an opportunity, empty when it has none
OppNdc(opp) ==
    IF \E i \in 1..Len(opp) : opp[i].key = "ndc"
    THEN opp[CHOOSE i \in 1..Len(opp) : opp[i].key = "ndc"].value.str
    ELSE <<>>

\* the opportunity carries an inline penny_pricing flag that is true
InlineFlagged(opp) ==
    \E i \in 1..Len(opp) : opp[i].key = "penny_pricing" /\ opp[i].value = PyTrue

\* the penny-flagged set of a filter call: the set passed in, else the NDCs
\* of the table's flagged rows, else nothing
PennyFlaggedSet ==
    IF call.penny_ndcs # None THEN call.penny_ndcs.elems
    ELSE IF call.nadac_df # None
         THEN {RowNdc(call.nadac_df, call.nadac_df.rows[i]) :
                  i \in FlaggedIndices(call.nadac_df.rows)}
         ELSE {}

\* the opportunity shows one of the two exclusion signals
Excluded(opp) == OppNdc(opp) \in PennyFlaggedSet \/ InlineFlagged(opp)

\* C15: filter_top_opportunities returns no opportunity whose ndc is in the
\* penny-flagged set or whose inline flag is true, and returns every input
\* opportunity that shows neither signal.
C15_ExclusionIsUnion ==
    Returned("filter_top_opportunities") =>
        /\ \A i \in 1..Len(ret) : ~Excluded(ret[i])
        /\ \A j \in 1..Len(call.opportunities) :
              ~Excluded(call.opportunities[j]) =>
                  \E i \in 1..Len(ret) : ret[i] = call.opportunities[j]

\* one opportunity was dropped on its inline flag alone, the other on its
\* ndc alone, with nothing returned
C15_Witness ==
    /\ Returned("filter_top_opportunities")
    /\ Len(call.opportunities) = 2
    /\ InlineFlagged(call.opportunities[1])
    /\ OppNdc(call.opportunities[1]) \notin PennyFlaggedSet
    /\ ~InlineFlagged(call.opportunities[2])
    /\ OppNdc(call.opportunities[2]) \in PennyFlaggedSet
    /\ ret = <<>>

\* a is b with some elements left out
RECURSIVE IsSubsequence(_, _)
IsSubsequence(a, b) ==
    IF a = <<>> THEN TRUE
    ELSE IF b = <<>> THEN FALSE
    ELSE IF Head(a) = Head(b) THEN IsSubsequence(Tail(a), Tail(b))
    ELSE IsSubsequence(a, Tail(b))

\* C16: the list filter_top_opportunities returns is a subsequence of its
\* input: the remaining opportunities keep their relative order and none is
\* repeated.
C16_ResultIsSubsequence ==
    Returned("filter_top_opportunities") =>
        IsSubsequence(ret, call.opportunities)

\* two different opportunities were both kept, in their input order
C16_Witness ==
    /\ Returned("filter_top_opportunities")
    /\ Len(call.opportunities) = 2
    /\ call.opportunities[1] # call.opportunities[2]
    /\ ret = call.opportunities

\* the rows of the table whose normalized ndc is the normalized ndc asked
MatchedRows ==
    {i \in 1..Len(call.nadac_df.rows) :
        NormalizeNdc(call.nadac_df.rows[i].ndc) = NormalizeNdc(call.ndc)}

\* the call looked up an NDC that its table holds
NdcFound ==
    /\ Returned("check_penny_pricing_for_drug")
    /\ "ndc" \in call.nadac_df.columns
    /\ MatchedRows # {}

\* flag true, unit price <= 0.10 or discount >= 95.0
AnyTrigger(row) ==
    \/ FlaggedRow(row)
    \/ row.nadac_per_unit # None /\ Cents(row.nadac_per_unit) <= 10

\* C17: for an NDC found in the table, check_penny_pricing_for_drug reports
\* is_penny_priced exactly when the first matching row has its flag true, a
\* nadac_per_unit <= 0.10 or a total_discount_340b_pct >= 95.0.
C17_ThreeTriggers ==
    NdcFound =>
        (ret.is_penny_priced <=> AnyTrigger(call.nadac_df.rows[Kth(MatchedRows, 1)]))

\* the NDC was found on the second row, which trips the price trigger alone
C17_Witness ==
    /\ NdcFound
    /\ MatchedRows = {2}
    /\ call.nadac_df.rows[2].penny_pricing = PyFalse
    /\ call.nadac_df.rows[2].nadac_per_unit = Decimal(10, -2)
    /\ call.nadac_df.rows[2].total_discount_340b_pct = Decimal(949, -1)
    /\ ret.is_penny_priced

\* C18: every entry check_penny_pricing returns has should_exclude true, and
\* a PennyPricingStatus has should_exclude equal to is_penny_priced.
C18_FlaggedIsExcluded ==
    /\ Returned("check_penny_pricing") =>
          \A i \in 1..Len(ret) : ret[i].is_penny_priced /\ ret[i].should_exclude
    /\ Returned("check_penny_pricing_for_drug") =>
          (ret.should_exclude <=> ret.is_penny_priced)

\* a drug was found penny priced and is to be excluded
C18_Witness ==
    /\ NdcFound
    /\ ret.is_penny_priced
    /\ ret.should_exclude

\* C19: without reference data nothing is flagged: a table with neither
\* signal column yields no entries; a table without ndc column or without
\* the NDC yields is_penny_priced and should_exclude false; a filter call
\* with neither table nor set drops exactly the inline-flagged opportunities.
C19_MissingDataFlagsNothing ==
    /\ (/\ Returned("check_penny_pricing")
        /\ "penny_pricing" \notin call.nadac_df.columns
        /\ "total_discount_340b_pct" \notin call.nadac_df.columns) =>
           ret = <<>>
    /\ (Returned("check_penny_pricing_for_drug") /\ ~NdcFound) =>
           ~ret.is_penny_priced /\ ~ret.should_exclude
    /\ (/\ Returned("filter_top_opportunities")
        /\ call.nadac_df = None
        /\ call.penny_ndcs = None) =>
           ret = SelectSeq(call.opportunities, LAMBDA opp : ~InlineFlagged(opp))

\* an NDC was asked of a table whose only rows, all penny priced, are of
\* another NDC
C19_Witness ==
    /\ Returned("check_penny_pricing_for_drug")
    /\ "ndc" \in call.nadac_df.columns
    /\ Len(call.nadac_df.rows) = 2
    /\ \A i \in 1..2 : call.nadac_df.rows[i].penny_pricing = PyTrue
    /\ MatchedRows = {}
    /\ ~ret.is_penny_priced

\* C20: calculate_margin_sensitivity returns one row per rate it is given,
\* row i carrying the i-th rate; given no rates it returns five rows for
\* 0.40, 0.45, 0.60, 0.80, 1.00 in that order.
C20_OneRowPerRateInOrder ==
    Returned("calculate_margin_sensitivity") =>
        IF call.capture_rates = None
        THEN /\ Len(ret) = 5
             /\ \A i \in 1..5 :
                   Cents(ret[i].capture_rate) = <<40, 45, 60, 80, 100>>[i]
        ELSE /\ Len(ret) = Len(call.capture_rates.items)
             /\ \A i \in 1..Len(ret) :
                   ret[i].capture_rate = call.capture_rates.items[i]

\* three rates given out of order, one of them twice, came back as given
C20_Witness ==
    /\ Returned("calculate_margin_sensitivity")
    /\ call.capture_rates # None
    /\ Len(ret) = 3
    /\ Cents(ret[1].capture_rate) = 80
    /\ Cents(ret[2].capture_rate) = 20
    /\ Cents(ret[3].capture_rate) = 80

\* C21: for a drug without a medical path every row of
\* calculate_margin_sensitivity carries the numbers medicare = 0 and
\* commercial = 0, whereas analyze_drug_margin reports both margins of the
\* same drug as absent (None).
C21_SensitivityZeroFills ==
    /\ (Returned("calculate_margin_sensitivity") /\ ~has_medical_path(call.drug))
        => \A i \in 1..Len(ret) :
              /\ ret[i].medicare = Decimal(0, 0)
              /\ ret[i].commercial = Decimal(0, 0)
    /\ (Returned("analyze_drug_margin") /\ ~has_medical_path(call.drug))
        => /\ ret.medicare_margin = None
           /\ ret.commercial_margin = None

\* a table of three rows for a drug with an asp but no hcpcs code
C21_Witness ==
    /\ Returned("calculate_margin_sensitivity")
    /\ call.drug.asp # None
    /\ call.drug.hcpcs_code = None
    /\ Len(ret) = 3
    /\ \A i \in 1..3 : ret[i].medicare = Decimal(0, 0)
    /\ analyze_drug_margin(call.drug, ret[1].capture_rate).medicare_margin = None

\* C22: MarginAnalysis.to_display_dict reports medicare_margin and
\* commercial_margin as None exactly when the analysis holds no such margin:
\* for a drug with a medical path both are present, for any other drug both
\* are None.
C22_DisplayNoneIffAbsent ==
    Returned("to_display_dict") =>
        /\ ret.medicare_margin = None <=> call.analysis.medicare_margin = None
        /\ ret.commercial_margin = None <=> call.analysis.commercial_margin = None
        /\ has_medical_path(call.analysis.drug)
            => ret.medicare_margin # None /\ ret.commercial_margin # None
        /\ ~has_medical_path(call.analysis.drug)
            => ret.medicare_margin = None /\ ret.commercial_margin = None

\* what holds of the code: a margin is displayed as None exactly when the
\* analysis holds none or holds a zero one
C22_DisplayNoneIffFalsy ==
    Returned("to_display_dict") =>
        /\ ret.medicare_margin = None <=> ~Bool(call.analysis.medicare_margin)
        /\ ret.commercial_margin = None <=> ~Bool(call.analysis.commercial_margin)

\* the break-even drug: a Medicare margin of 0.00 is displayed as None next to
\* a commercial margin of 9.00
C22_ZeroMarginDisplayedNone ==
    /\ Returned("to_display_dict")
    /\ call.analysis.drug = BreakEvenDrug
    /\ call.analysis.medicare_margin = Decimal(0, 0)
    /\ ret.medicare_margin = None
    /\ ret.commercial_margin = Float(Decimal(9, 0))

\* the digits of an NDC, dashes and spaces removed
Cleaned(ndc) == Remove(Remove(ndc, "-"), " ")

AllDigits(s) == \A i \in 1..Len(s) : s[i] \in Digits

\* the first n characters of s
First(s, n) == IF Len(s) <= n THEN s ELSE SubSeq(s, 1, n)

\* C23: Drug.ndc_normalized removes dashes and spaces and returns a string
\* of 10 digits: fewer than 10 digits are left-padded with zeros to 10, and
\* of 11 digits the first 10 are kept.
C23_TenDigitNdc ==
    (/\ Returned("ndc_normalized")
     /\ AllDigits(Cleaned(call.ndc))
     /\ Len(Cleaned(call.ndc)) <= NDC_WIDTH)
    => /\ Len(ret) = NDC_WIDTH - 1
       /\ AllDigits(ret)
       /\ Len(Cleaned(call.ndc)) < NDC_WIDTH
           => ret = ZFill(Cleaned(call.ndc), NDC_WIDTH - 1)
       /\ Len(Cleaned(call.ndc)) = NDC_WIDTH
           => ret = First(Cleaned(call.ndc), NDC_WIDTH - 1)

\* what holds of the code: the digits padded to 11, the last 11 of them kept
C23_ElevenDigitNdc ==
    (Returned("ndc_normalized") /\ AllDigits(Cleaned(call.ndc)))
    => /\ Len(ret) = NDC_WIDTH
       /\ AllDigits(ret)
       /\ ret = Last(Zeros(NDC_WIDTH) \o Cleaned(call.ndc), NDC_WIDTH)

\* '0074-4339-02' gives the 11 digits '00074433902'
C23_ElevenDigitsReturned ==
    /\ Returned("ndc_normalized")
    /\ call.ndc = <<"0", "0", "7", "4", "-", "4", "3", "3", "9", "-", "0", "2">>
    /\ ret = <<"0", "0", "0", "7", "4", "4", "3", "3", "9", "0", "2">>

\* C24: there is a single NDC canonicalization: for every NDC string,
\* Drug.ndc_normalized, ndc_lookup._normalize_ndc and the dash-stripped
\* lookup key of the dashboard's _row_to_drug are the same string.
C24_OneCanonicalNdc ==
    /\ Returned("ndc_normalized") =>
        /\ ret = normalize_ndc(Str(call.ndc))
        /\ call.ndc # <<>> => ret = row_to_drug_key(call.ndc)
    /\ (Returned("_normalize_ndc") /\ call.ndc # None) =>
        /\ ret = ndc_normalized(call.ndc.str)
        /\ call.ndc.str # <<>> => ret = row_to_drug_key(call.ndc.str)

\* what holds of the code: the three agree on the strings of exactly eleven
\* digits, written with or without dashes and blanks around them
C24_AgreeOnElevenDigits ==
    (/\ Returned("ndc_normalized")
     /\ AllDigits(Remove(Strip(call.ndc), "-"))
     /\ Len(Remove(Strip(call.ndc), "-")) = NDC_WIDTH)
    => /\ ret = normalize_ndc(Str(call.ndc))
       /\ ret = row_to_drug_key(call.ndc)

\* the 12 digits '123456789012': ndc_normalized keeps the last eleven,
\* _normalize_ndc and the dashboard all twelve
C24_TwelveDigitsDiffer ==
    /\ Returned("ndc_normalized")
    /\ Len(call.ndc) = NDC_WIDTH + 1
    /\ AllDigits(call.ndc)
    /\ Len(ret) = NDC_WIDTH
    /\ normalize_ndc(Str(call.ndc)) = call.ndc
    /\ row_to_drug_key(call.ndc) = call.ndc

\* '12345': padded to eleven digits by ndc_normalized and _normalize_ndc,
\* left as it is by the dashboard
C24_ShortNdcUnpadded ==
    /\ Returned("_normalize_ndc")
    /\ call.ndc = Str(<<"1", "2", "3", "4", "5">>)
    /\ ret = ndc_normalized(call.ndc.str)
    /\ Len(ret) = NDC_WIDTH
    /\ row_to_drug_key(call.ndc.str) = call.ndc.str

InUnitInterval(d) == DecGe(d, Decimal(0, 0)) /\ DecLe(d, Decimal(1, 0))

\* C25: every MarginAnalysis produced by analyze_drug_margin or
\* analyze_drug_with_payer has retail_capture_rate within [0, 1], whatever
\* capture_rate the caller passes.
C25_CaptureRateInUnitInterval ==
    (Returned("analyze_drug_margin") \/ Returned("analyze_drug_with_payer"))
        => InUnitInterval(ret.retail_capture_rate)

\* what holds of the code: the analysis carries the rate it was given
C25_CaptureRateAsPassed ==
    (Returned("analyze_drug_margin") \/ Returned("analyze_drug_with_payer"))
        => ret.retail_capture_rate = call.capture_rate

\* a rate of 1.50 passed through, the net margin above the gross margin
C25_RateAboveOneKept ==
    /\ Returned("analyze_drug_margin")
    /\ call.drug = TestDrug
    /\ Cents(ret.retail_capture_rate) = 150
    /\ DecGt(ret.retail_net_margin, ret.retail_gross_margin)

\* the names of a list that check_ira_status flags, in the order of the list
FlaggedNames(names) ==
    SelectSeq(names, LAMBDA n : check_ira_status(n).is_ira_drug)

\* C26: filter_ira_drugs(names) returns exactly the status records of the
\* names check_ira_status flags, in the order of the input, each carrying as
\* input_name the name as it was given; a name that is not flagged adds
\* nothing to the result.
C26_FlaggedNamesInOrder ==
    Returned("filter_ira_drugs") =>
        LET flagged == FlaggedNames(call.drug_names.items)
        IN  /\ Len(ret) = Len(flagged)
            /\ \A i \in 1..Len(ret) :
                  LET status == check_ira_status(flagged[i])
                  IN  /\ ret[i].input_name = flagged[i]
                      /\ ret[i].is_ira_drug
                      /\ DOMAIN ret[i] = DOMAIN status \cup {"input_name"}
                      /\ \A f \in DOMAIN status : ret[i][f] = status[f]

\* HUMIRA dropped, ' Enbrel ' kept under the name as given
C26_Witness ==
    /\ Returned("filter_ira_drugs")
    /\ call.drug_names.items =
          <<<<"H", "U", "M", "I", "R", "A">>,
            <<" ", "E", "n", "b", "r", "e", "l", " ">>>>
    /\ Len(ret) = 1
    /\ ret[1].input_name = <<" ", "E", "n", "b", "r", "e", "l", " ">>
    /\ ret[1].drug_name = <<"E", "N", "B", "R", "E", "L">>
    /\ ret[1].ira_year = 2026

\* C27: for a drug with a medical path, asp > 0 and bill_units_per_package
\* >= 1, analyze_drug_margin never recommends MEDICARE_MEDICAL, at any
\* capture rate: the commercial margin is strictly the greater of the two.
C27_MedicareNeverRecommended ==
    (/\ Returned("analyze_drug_margin")
     /\ has_medical_path(call.drug)
     /\ call.drug.asp.coef > 0
     /\ call.drug.bill_units_per_package >= 1)
    => ret.recommended_path # MEDICARE_MEDICAL

\* the Medicare margin beats the retail net margin and still loses to the
\* commercial one
C27_Witness ==
    /\ Returned("analyze_drug_margin")
    /\ call.drug = HumiraDrug
    /\ call.capture_rate = DEFAULT_CAPTURE_RATE
    /\ DecGt(ret.medicare_margin, ret.retail_net_margin)
    /\ DecGt(ret.commercial_margin, ret.medicare_margin)
    /\ ret.recommended_path = COMMERCIAL_MEDICAL

\* C28: the 'recommended' entry of the sensitivity row for rate r is the
\* recommended_path of analyze_drug_margin(drug, r): it is resolved from the
\* margins as present or absent, not from the zero-filled columns of the row.
C28_RowRecommendationIsAnalysis ==
    Returned("calculate_margin_sensitivity") =>
        \A i \in 1..Len(ret) :
            ret[i].recommended =
                analyze_drug_margin(call.drug, ret[i].capture_rate).recommended_path

\* a retail-only drug with a negative retail net margin: RETAIL next to
\* medicare = 0 and commercial = 0
C28_Witness ==
    /\ Returned("calculate_margin_sensitivity")
    /\ ~has_medical_path(call.drug)
    /\ Len(ret) >= 1
    /\ ret[1].retail_net.coef < 0
    /\ ret[1].medicare = Decimal(0, 0)
    /\ ret[1].commercial = Decimal(0, 0)
    /\ ret[1].recommended = RETAIL

\* the retail gross margin of a drug: AWP * 0.85 - contract cost
RetailGross(drug) == DecSub(DecMul(drug.awp, AWP_DISCOUNT_FACTOR), drug.contract_cost)

\* C29: for a drug whose retail gross margin is >= 0, a recommendation of
\* RETAIL at a capture rate r stays RETAIL at every rate r' >= r; in a
\* sensitivity table a row recommending RETAIL is followed only by rows
\* recommending RETAIL wherever the rate is not lower, so over ascending rates
\* the recommendation changes to RETAIL at most once and never back.
C29_RetailStaysRetail ==
    /\ (Returned("calculate_margin_sensitivity")
        /\ DecGe(RetailGross(call.drug), Decimal(0, 0)))
        => \A i, j \in 1..Len(ret) :
              (/\ DecLe(ret[i].capture_rate, ret[j].capture_rate)
               /\ ret[i].recommended = RETAIL)
              => ret[j].recommended = RETAIL
    /\ (/\ Returned("analyze_drug_margin")
        /\ DecGe(ret.retail_gross_margin, Decimal(0, 0))
        /\ ret.recommended_path = RETAIL)
        => \A r \in CaptureRates :
              DecGe(r, call.capture_rate)
              => analyze_drug_margin(call.drug, r).recommended_path = RETAIL

\* the drug of the commercial test over 0.40, 0.60, 0.80: COMMERCIAL twice,
\* then RETAIL
C29_Witness ==
    /\ Returned("calculate_margin_sensitivity")
    /\ call.drug = TestDrug
    /\ call.capture_rates # None
    /\ Len(ret) = 3
    /\ Cents(ret[1].capture_rate) = 40
    /\ Cents(ret[2].capture_rate) = 60
    /\ Cents(ret[3].capture_rate) = 80
    /\ ret[1].recommended = COMMERCIAL_MEDICAL
    /\ ret[2].recommended = COMMERCIAL_MEDICAL
    /\ ret[3].recommended = RETAIL

\* the NDC check_penny_pricing reads off a row of a table
BulkNdc(nadac_df, i) == RowNdc(nadac_df, nadac_df.rows[i])

\* distinct rows have distinct NDCs once the dashes are removed
DistinctDashStripped(nadac_df) ==
    \A i, j \in 1..Len(nadac_df.rows) :
        i # j => RemoveDashes(BulkNdc(nadac_df, i)) # RemoveDashes(BulkNdc(nadac_df, j))

\* distinct rows have distinct NDCs once the dashes and the blanks around
\* them are removed
DistinctNormalized(nadac_df) ==
    \A i, j \in 1..Len(nadac_df.rows) :
        i # j => Strip(RemoveDashes(BulkNdc(nadac_df, i)))
                    # Strip(RemoveDashes(BulkNdc(nadac_df, j)))

\* the NDCs check_penny_pricing flags in a table
BulkFlaggedNdcs(nadac_df) ==
    LET flagged == check_penny_pricing(nadac_df)
    IN  {flagged[k].ndc : k \in 1..Len(flagged)}

\* check_penny_pricing flags the NDC, in whatever spelling the table has it
BulkFlags(nadac_df, ndc) ==
    \E n \in BulkFlaggedNdcs(nadac_df) :
        Strip(RemoveDashes(n)) = Strip(RemoveDashes(ndc))

\* only the unit price of the row trips a trigger
PriceTriggerOnly(row) ==
    /\ ~FlaggedRow(row)
    /\ row.nadac_per_unit # None
    /\ Cents(row.nadac_per_unit) <= 10

\* one of the two penny pricing checks has returned
PennyChecked ==
    Returned("check_penny_pricing") \/ Returned("check_penny_pricing_for_drug")

\* the per-drug path flags what the bulk path flags, and more only by price
PerDrugSuperset ==
    /\ Returned("check_penny_pricing") =>
          \A k \in 1..Len(ret) :
              check_penny_pricing_for_drug(ret[k].ndc, call.nadac_df).is_penny_priced
    /\ (/\ Returned("check_penny_pricing_for_drug")
        /\ BulkFlags(call.nadac_df, call.ndc))
        => ret.is_penny_priced
    /\ (/\ Returned("check_penny_pricing_for_drug")
        /\ ret.is_penny_priced
        /\ ~BulkFlags(call.nadac_df, call.ndc))
        => PriceTriggerOnly(call.nadac_df.rows[Kth(MatchedRows, 1)])

\* C30 as stated: for a NADAC table in which distinct rows have distinct
\* dash-stripped NDCs, every NDC check_penny_pricing flags is reported with
\* is_penny_priced = true by check_penny_pricing_for_drug on the same table,
\* and an NDC flagged by the latter alone is flagged by its unit price <= 0.10.
C30_PerDrugSupersetDashStripped ==
    (PennyChecked /\ DistinctDashStripped(call.nadac_df)) => PerDrugSuperset

\* C30, amended: the same for a NADAC table that has an ndc column and in
\* which distinct rows have distinct NDCs once dashes and surrounding
\* whitespace are removed.
C30_PerDrugSupersetNormalized ==
    (/\ PennyChecked
     /\ "ndc" \in call.nadac_df.columns
     /\ DistinctNormalized(call.nadac_df))
    => PerDrugSuperset

\* the NDC asked about stands on the second of two rows, flagged in bulk by
\* its discount of 95.0, and the lookup flags it too
C30_Witness ==
    /\ Returned("check_penny_pricing_for_drug")
    /\ "ndc" \in call.nadac_df.columns
    /\ Len(call.nadac_df.rows) = 2
    /\ DistinctNormalized(call.nadac_df)
    /\ call.ndc = <<"1", "-", "2">>
    /\ MatchedRows = {2}
    /\ call.nadac_df.rows[2].total_discount_340b_pct = Decimal(950, -1)
    /\ call.nadac_df.rows[2].nadac_per_unit = Decimal(11, -2)
    /\ BulkFlaggedNdcs(call.nadac_df) = {call.ndc}
    /\ ret.is_penny_priced

\* the lookup alone flags the NDC: a unit price of 0.10 on a row the bulk
\* path passes over
C30_FlaggedByPriceAlone ==
    /\ Returned("check_penny_pricing_for_drug")
    /\ DistinctNormalized(call.nadac_df)
    /\ MatchedRows = {1}
    /\ BulkFlaggedNdcs(call.nadac_df) = {}
    /\ ret.is_penny_priced
    /\ PriceTriggerOnly(call.nadac_df.rows[1])

====
